---------------------------- MODULE Spec2Model ----------------------------
(***************************************************************************)
(* Blackjack EV engine (fresh_blackjack_cpp/cpp_src): the recursive dealer *)
(* probability engine, its memo cache, and the player EV calculations that *)
(* consume it.  Probabilities and EVs (double in the source) are modelled  *)
(* as exact rationals <<numerator, denominator>>.                          *)
(***************************************************************************)
EXTENDS Integers, Sequences, FiniteSets, TLC

VARIABLES
    deck,        \* the DeckComposition the caller passes to the dealer engine
    shoe,        \* the DeckState the caller passes to the EV engine
    engine,      \* RecursiveDealerEngine: cache, total_cache_hits, total_cache_misses
    probs,       \* the ExactDealerProbs returned by the last dealer call
    call,        \* the last call: operation and arguments
    ret,         \* the value returned by the last EV call
    last_ev,     \* the DetailedEV returned by the last EV entry point
    simulation_depth,  \* AdvancedEVEngine::simulation_depth
    calls,       \* the number of engine calls made so far
    stack,       \* the calls of the recursion in progress, innermost last:
                 \* arguments and the rank the loop is at
    sums         \* the accumulators of the loop of each call in progress

vars == <<deck, shoe, engine, probs, call, ret, last_ev, simulation_depth, calls, stack,
         sums>>

-----------------------------------------------------------------------------
(* Bounds of the model *)

\* most cards in a shoe the caller starts from
MaxCards == 3
\* most cards of one rank in such a shoe
MaxPerRank == 2
\* most dealer queries in one behaviour
MaxQueries == 2

\* the most calls made on one EV engine
MaxEvCalls == 1

-----------------------------------------------------------------------------
(* Exact rational arithmetic standing for double *)

RECURSIVE GCD(_, _)
GCD(a, b) == IF b = 0 THEN a ELSE GCD(b, a % b)

Abs(x) == IF x < 0 THEN -x ELSE x

\* the fraction n/d (d # 0) in lowest terms with a positive denominator
Frac(n, d) ==
    LET g == GCD(Abs(n), Abs(d))
        s == IF d < 0 THEN -1 ELSE 1
    IN  <<(s * n) \div g, (s * d) \div g>>

Zero == <<0, 1>>
One == <<1, 1>>

RAdd(a, b) ==
    LET g == GCD(a[2], b[2])
        l == (a[2] \div g) * b[2]
    IN  Frac(a[1] * (l \div a[2]) + b[1] * (l \div b[2]), l)

RNeg(a) == <<-a[1], a[2]>>

RSub(a, b) == RAdd(a, RNeg(b))

RMul(a, b) ==
    LET g1 == GCD(Abs(a[1]), b[2])
        g2 == GCD(Abs(b[1]), a[2])
    IN  Frac((a[1] \div g1) * (b[1] \div g2), (a[2] \div g2) * (b[2] \div g1))

\* a / b for b # 0
RDiv(a, b) == RMul(a, Frac(b[2], b[1]))

RAbs(a) == <<Abs(a[1]), a[2]>>

RLt(a, b) == RSub(a, b)[1] < 0

RGt(a, b) == RLt(b, a)

RMax(a, b) == IF RLt(a, b) THEN b ELSE a


\* x > 1/e for a rational x >= 0 (the source's comparisons against 1e-6, 1e-3)
RExceeds(x, e) == x[1] > x[2] \div e

-----------------------------------------------------------------------------
(* uint64_t with wraparound, as four 16-bit limbs, least significant first *)

Limb == 256 * 256

U64Zero == <<0, 0, 0, 0>>

\* (k * m + a) mod 2^64 for small non-negative m and a
U64MulAdd(k, m, a) ==
    LET t1 == k[1] * m + a
        t2 == k[2] * m + (t1 \div Limb)
        t3 == k[3] * m + (t2 \div Limb)
        t4 == k[4] * m + (t3 \div Limb)
    IN  <<t1 % Limb, t2 % Limb, t3 % Limb, t4 % Limb>>

-----------------------------------------------------------------------------
(* RulesConfig and DeckComposition *)

Ranks == 1..10
Slots == 0..12

RulesConfig(h17, payout, surrender, resplit, maxHands, das, acesOne) ==
    [dealer_hits_soft_17 |-> h17,
     blackjack_payout    |-> payout,
     surrender_allowed   |-> surrender,
     resplitting_allowed |-> resplit,
     max_split_hands     |-> maxHands,
     double_after_split  |-> das,
     split_aces_one_card |-> acesOne]

\* the defaults of RulesConfig's constructor, with the soft-17 flag given
DefaultRules(h17) == RulesConfig(h17, <<3, 2>>, TRUE, TRUE, 4, TRUE, TRUE)

\* DeckComposition(num_decks)
FreshComposition(num_decks) ==
    [cards |-> [i \in Slots |-> 4 * num_decks], total_cards |-> 52 * num_decks]

RECURSIVE FirstTenSlot(_, _)
\* the first slot i..12 holding a ten-value card, or 13 when there is none
FirstTenSlot(cards, i) ==
    IF i > 12 THEN 13
    ELSE IF cards[i] > 0 THEN i ELSE FirstTenSlot(cards, i + 1)

\* remove_card forgetting "total_cards--"
RemoveKeepingTotal(d, rank) ==
    IF rank >= 1 /\ rank <= 10
    THEN LET i == IF rank = 10 THEN FirstTenSlot(d.cards, 9) ELSE rank - 1
         IN  IF i <= 12 /\ d.cards[i] > 0
             THEN [d EXCEPT !.cards[i] = @ - 1]
             ELSE d
    ELSE d

\* a removal that leaves the composition as it is
KeepsCard(d, rank) == d

remove_card(d, rank) ==
    IF rank >= 1 /\ rank <= 10
    THEN IF rank = 10
         THEN LET i == FirstTenSlot(d.cards, 9)
              IN  IF i <= 12
                  THEN [cards |-> [d.cards EXCEPT ![i] = @ - 1],
                        total_cards |-> d.total_cards - 1]
                  ELSE d
         ELSE IF d.cards[rank - 1] > 0
              THEN [cards |-> [d.cards EXCEPT ![rank - 1] = @ - 1],
                    total_cards |-> d.total_cards - 1]
              ELSE d
    ELSE d

get_ten_cards(d) == d.cards[9] + d.cards[10] + d.cards[11] + d.cards[12]

get_cards_for_rank(d, rank) ==
    IF rank = 1 THEN d.cards[0]
    ELSE IF rank >= 2 /\ rank <= 9 THEN d.cards[rank - 1]
    ELSE IF rank = 10 THEN get_ten_cards(d)
    ELSE 0

get_probability(d, rank) ==
    IF d.total_cards <= 0 THEN Zero
    ELSE Frac(get_cards_for_rank(d, rank), d.total_cards)

\* 53^j mod 2^64 for j = 0..12, at index j + 1
RECURSIVE PowersOf53(_)
PowersOf53(j) ==
    IF j = 0 THEN <<<<1, 0, 0, 0>>>>
    ELSE LET lower == PowersOf53(j - 1)
         IN  Append(lower, U64MulAdd(lower[j], 53, 0))

Pow53 == PowersOf53(12)

\* the key after "for (i = 0; i < 13; ++i) key = key * 53 + cards[i]" from the
\* key 0: in arithmetic mod 2^64 the loop computes the polynomial
\* sum of cards[i] * 53^(12 - i), which is summed here limb by limb
CacheKeyFrom(cards) ==
    LET S(l) == cards[0] * Pow53[13][l] + cards[1] * Pow53[12][l]
              + cards[2] * Pow53[11][l] + cards[3] * Pow53[10][l]
              + cards[4] * Pow53[9][l] + cards[5] * Pow53[8][l]
              + cards[6] * Pow53[7][l] + cards[7] * Pow53[6][l]
              + cards[8] * Pow53[5][l] + cards[9] * Pow53[4][l]
              + cards[10] * Pow53[3][l] + cards[11] * Pow53[2][l]
              + cards[12] * Pow53[1][l]
        t1 == S(1)
        t2 == S(2) + (t1 \div Limb)
        t3 == S(3) + (t2 \div Limb)
        t4 == S(4) + (t3 \div Limb)
    IN  <<t1 % Limb, t2 % Limb, t3 % Limb, t4 % Limb>>

get_cache_key(d) == CacheKeyFrom(d.cards)

-----------------------------------------------------------------------------
(* RecursiveDealerEngine *)

\* ExactDealerProbs()
NewProbs ==
    [prob_17 |-> Zero, prob_18 |-> Zero, prob_19 |-> Zero, prob_20 |-> Zero,
     prob_21 |-> Zero, prob_bust |-> Zero, prob_blackjack |-> Zero,
     distribution |-> [i \in 0..22 |-> Zero],
     recursive_calls |-> 0, from_cache |-> FALSE]

get_total_probability(p) ==
    RAdd(p.prob_17, RAdd(p.prob_18, RAdd(p.prob_19, RAdd(p.prob_20,
        RAdd(p.prob_21, RAdd(p.prob_bust, p.prob_blackjack))))))

\* denominator of the tolerance 0.000001
ProbTolerance == 1000000

verify_probabilities(p) ==
    ~RExceeds(RAbs(RSub(get_total_probability(p), One)), ProbTolerance)

RECURSIVE SumCards(_, _)
SumCards(hand, i) == IF i > Len(hand) THEN 0 ELSE hand[i] + SumCards(hand, i + 1)

RECURSIVE CountAces(_, _)
CountAces(hand, i) ==
    IF i > Len(hand) THEN 0
    ELSE (IF hand[i] = 1 THEN 1 ELSE 0) + CountAces(hand, i + 1)

calculate_dealer_total_and_soft(hand) ==
    LET total == SumCards(hand, 1)
        aces == CountAces(hand, 1)
    IN  IF aces > 0 /\ total + 10 <= 21 THEN <<total + 10, TRUE>>
        ELSE <<total, FALSE>>

\* a dealer that draws to every hand below 21
HitsBelow21(total, is_soft, rules) == total < 21

dealer_must_hit(total, is_soft, rules) ==
    IF total < 17 THEN TRUE
    ELSE IF total > 17 THEN FALSE
    ELSE IF total = 17 /\ is_soft /\ rules.dealer_hits_soft_17 THEN TRUE
    ELSE FALSE

is_dealer_blackjack(hand) ==
    IF Len(hand) # 2 THEN FALSE
    ELSE /\ hand[1] + hand[2] = 11
         /\ (hand[1] = 1 \/ hand[2] = 1)
         /\ (hand[1] = 10 \/ hand[2] = 10)

\* the switch on the standing total
StandBucket(result, total) ==
    IF total = 17 THEN [result EXCEPT !.prob_17 = One]
    ELSE IF total = 18 THEN [result EXCEPT !.prob_18 = One]
    ELSE IF total = 19 THEN [result EXCEPT !.prob_19 = One]
    ELSE IF total = 20 THEN [result EXCEPT !.prob_20 = One]
    ELSE IF total = 21 THEN [result EXCEPT !.prob_21 = One]
    ELSE result

\* result += card_prob * branch_result, bucket by bucket
Accumulate(result, card_prob, branch) ==
    [result EXCEPT
        !.prob_17 = RAdd(@, RMul(card_prob, branch.prob_17)),
        !.prob_18 = RAdd(@, RMul(card_prob, branch.prob_18)),
        !.prob_19 = RAdd(@, RMul(card_prob, branch.prob_19)),
        !.prob_20 = RAdd(@, RMul(card_prob, branch.prob_20)),
        !.prob_21 = RAdd(@, RMul(card_prob, branch.prob_21)),
        !.prob_bust = RAdd(@, RMul(card_prob, branch.prob_bust)),
        !.prob_blackjack = RAdd(@, RMul(card_prob, branch.prob_blackjack)),
        !.recursive_calls = @ + branch.recursive_calls]

\* every bucket times f
Scale(result, f) ==
    [result EXCEPT
        !.prob_17 = RMul(@, f), !.prob_18 = RMul(@, f), !.prob_19 = RMul(@, f),
        !.prob_20 = RMul(@, f), !.prob_21 = RMul(@, f), !.prob_bust = RMul(@, f),
        !.prob_blackjack = RMul(@, f)]

\* the renormalisation after the loop over the next card
Normalize(result, total_prob_check) ==
    IF /\ RGt(total_prob_check, Zero)
       /\ RExceeds(RAbs(RSub(total_prob_check, One)), ProbTolerance)
    THEN Scale(result, RDiv(One, total_prob_check))
    ELSE result

\* a standing dealer whose 21 is booked as a blackjack
StandResultAsNatural(result, total) ==
    IF total = 21
    THEN [result EXCEPT !.prob_blackjack = One, !.distribution[total] = One]
    ELSE [StandBucket(result, total) EXCEPT !.distribution[total] = One]

\* the terminal case of a standing dealer
StandResult(result, total) ==
    [StandBucket(result, total) EXCEPT !.distribution[total] = One]

\* the terminal case of a busted dealer
BustResult(result) ==
    [result EXCEPT !.prob_bust = One, !.distribution[22] = One]

RECURSIVE calculate_recursive(_, _, _, _)

\* card_prob of every rank, 0 for a rank the loop skips
\* ("if (cards_available <= 0) continue")
CardProbs(d) ==
    LET P(rank) == IF get_cards_for_rank(d, rank) <= 0 THEN Zero
                   ELSE get_probability(d, rank)
    IN  <<P(1), P(2), P(3), P(4), P(5), P(6), P(7), P(8), P(9), P(10)>>

\* branch_result of every rank, empty for a rank the loop skips
DealerBranches(dealer_hand, d, rules, depth) ==
    LET B(rank) ==
            IF get_cards_for_rank(d, rank) <= 0 THEN NewProbs
            ELSE calculate_recursive(Append(dealer_hand, rank), remove_card(d, rank),
                                     rules, depth + 1)
    IN  <<B(1), B(2), B(3), B(4), B(5), B(6), B(7), B(8), B(9), B(10)>>

\* result after the iterations 1..rank of the loop
\* "for (int rank = 1; rank <= 10; ++rank)"
RECURSIVE AfterRank(_, _, _, _)
AfterRank(rank, result, card_probs, branches) ==
    IF rank < 1 \/ rank > Len(branches) THEN result
    ELSE IF card_probs[rank] = Zero
         THEN AfterRank(rank - 1, result, card_probs, branches)
         ELSE Accumulate(AfterRank(rank - 1, result, card_probs, branches),
                         card_probs[rank], branches[rank])

\* total_prob_check after the iterations 1..rank of the loop
RECURSIVE ProbCheckAfter(_, _)
ProbCheckAfter(rank, card_probs) ==
    IF rank < 1 THEN Zero
    ELSE IF card_probs[rank] = Zero THEN ProbCheckAfter(rank - 1, card_probs)
         ELSE RAdd(ProbCheckAfter(rank - 1, card_probs), card_probs[rank])

calculate_recursive(dealer_hand, d, rules, depth) ==
    LET result == [NewProbs EXCEPT !.recursive_calls = 1]
        ts == calculate_dealer_total_and_soft(dealer_hand)
        total == ts[1]
        is_soft == ts[2]
    IN  IF total > 21 THEN BustResult(result)
        ELSE IF ~dealer_must_hit(total, is_soft, rules)
             THEN StandResult(result, total)
             ELSE LET card_probs == CardProbs(d)
                  IN  Normalize(AfterRank(10, result, card_probs,
                                    DealerBranches(dealer_hand, d, rules, depth)),
                                ProbCheckAfter(10, card_probs))

RECURSIVE HandKey(_, _, _)
HandKey(hand, i, key) ==
    IF i > Len(hand) THEN key
    ELSE HandKey(hand, i + 1, U64MulAdd(key, 13, hand[i]))

generate_cache_key(dealer_hand, d, rules) ==
    U64MulAdd(HandKey(dealer_hand, 1, get_cache_key(d)), 2,
              IF rules.dealer_hits_soft_17 THEN 1 ELSE 0)

\* "result.prob_17 = non_bj_probs.prob_17 * scale_factor; ..." for the buckets
\* 17 to bust, beside result.prob_blackjack = pbj
ScaledBesideNatural(pbj, non_bj_probs, scale_factor) ==
    [NewProbs EXCEPT
        !.prob_blackjack = pbj,
        !.prob_17 = RMul(non_bj_probs.prob_17, scale_factor),
        !.prob_18 = RMul(non_bj_probs.prob_18, scale_factor),
        !.prob_19 = RMul(non_bj_probs.prob_19, scale_factor),
        !.prob_20 = RMul(non_bj_probs.prob_20, scale_factor),
        !.prob_21 = RMul(non_bj_probs.prob_21, scale_factor),
        !.prob_bust = RMul(non_bj_probs.prob_bust, scale_factor),
        !.recursive_calls = non_bj_probs.recursive_calls + 1]

\* the branch "if (pbj < 1.0)" of the natural upcards and its else
BesideNatural(pbj, dealer_upcard, no_bj_deck, rules) ==
    IF RLt(pbj, One)
    THEN ScaledBesideNatural(pbj,
             calculate_recursive(<<dealer_upcard>>, no_bj_deck, rules, 0),
             RSub(One, pbj))
    ELSE [NewProbs EXCEPT !.prob_blackjack = pbj]

\* the distribution of the hand when the upcard can make a natural
NaturalUpcardProbs(dealer_upcard, working_deck, rules) ==
    LET needed_for_bj == IF dealer_upcard = 1 THEN 10 ELSE 1
    IN  IF working_deck.total_cards > 0
        THEN BesideNatural(
                 Frac(get_cards_for_rank(working_deck, needed_for_bj),
                      working_deck.total_cards),
                 dealer_upcard, remove_card(working_deck, needed_for_bj), rules)
        ELSE NewProbs

\* the computation on a cache miss
ComputeExact(dealer_upcard, working_deck, rules) ==
    IF dealer_upcard = 1 \/ dealer_upcard = 10
    THEN NaturalUpcardProbs(dealer_upcard, working_deck, rules)
    ELSE calculate_recursive(<<dealer_upcard>>, working_deck, rules, 0)

\* RecursiveDealerEngine()
NewEngine ==
    [cache |-> <<>>, total_cache_hits |-> 0, total_cache_misses |-> 0]

\* cache[key] = value
CachePut(cache, key, entry) ==
    (key :> entry) @@ cache

\* "total_cache_hits++; cached_result.from_cache = true; return cached_result"
CacheHit(eng, cache_key) ==
    [engine |-> [eng EXCEPT !.total_cache_hits = @ + 1],
     result |-> [eng.cache[cache_key] EXCEPT !.from_cache = TRUE]]

\* "total_cache_misses++; ... cache[cache_key] = result; return result"
CacheMiss(eng, cache_key, result) ==
    [engine |-> [eng EXCEPT !.cache = CachePut(@, cache_key, result),
                            !.total_cache_misses = @ + 1],
     result |-> result]

\* the lookup of cache_key and, on a miss, the computation on working_deck
LookupOrCompute(eng, cache_key, dealer_upcard, working_deck, rules) ==
    IF cache_key \in DOMAIN eng.cache
    THEN CacheHit(eng, cache_key)
    ELSE CacheMiss(eng, cache_key, ComputeExact(dealer_upcard, working_deck, rules))

\* the cache key of the hand <<dealer_upcard>> on working_deck, then the lookup
LookupOn(eng, dealer_upcard, working_deck, rules) ==
    LookupOrCompute(eng, generate_cache_key(<<dealer_upcard>>, working_deck, rules),
                    dealer_upcard, working_deck, rules)

\* returns the engine after the call and the result of the call
calculate_exact_probabilities(eng, dealer_upcard, d, rules) ==
    LookupOn(eng, dealer_upcard, remove_card(d, dealer_upcard), rules)

\* a clear_cache that resets the counters and keeps the entries
ClearCountersOnly(eng) == [eng EXCEPT !.total_cache_hits = 0, !.total_cache_misses = 0]

clear_cache(eng) == [eng EXCEPT !.cache = <<>>]

get_cache_size(eng) == Cardinality(DOMAIN eng.cache)

-----------------------------------------------------------------------------
(* The player's hand and its value against the dealer's distribution *)

\* "while (aces_as_eleven < aces && soft_total + 10 <= 21)"
RECURSIVE AcesAsEleven(_, _, _)
AcesAsEleven(aces, soft_total, aces_as_eleven) ==
    IF aces_as_eleven < aces /\ soft_total + 10 <= 21
    THEN AcesAsEleven(aces, soft_total + 10, aces_as_eleven + 1)
    ELSE <<soft_total, aces_as_eleven>>

\* calculate_hand_value calling a hand soft whenever an ace counts as eleven,
\* a total of 21 included
HandValueSoftAt21(cards) ==
    LET opt == AcesAsEleven(CountAces(cards, 1), SumCards(cards, 1), 0)
    IN  [cards |-> cards,
         total |-> IF cards = <<>> THEN 0 ELSE opt[1],
         is_soft |-> cards # <<>> /\ opt[2] > 0,
         is_busted |-> cards # <<>> /\ opt[1] > 21,
         is_blackjack |-> Len(cards) = 2 /\ opt[1] = 21,
         can_split |-> Len(cards) = 2 /\ cards[1] = cards[2]]

\* BJLogicCore::calculate_hand_value: a HandData
calculate_hand_value(cards) ==
    IF cards = <<>>
    THEN [cards |-> cards, total |-> 0, is_soft |-> FALSE, can_split |-> FALSE,
          is_blackjack |-> FALSE, is_busted |-> FALSE]
    ELSE LET hard_total == SumCards(cards, 1)
             aces == CountAces(cards, 1)
             opt == AcesAsEleven(aces, hard_total, 0)
             soft_total == opt[1]
             aces_as_eleven == opt[2]
         IN  [cards |-> cards,
              total |-> soft_total,
              is_soft |-> aces_as_eleven > 0 /\ soft_total < 21,
              is_busted |-> soft_total > 21,
              is_blackjack |-> Len(cards) = 2 /\ soft_total = 21,
              can_split |-> Len(cards) = 2 /\ cards[1] = cards[2]]

\* the 17 rows of Action[18][10] the initialiser gives: the hard totals 5..21
\* against the dealer's A, 2, ..., 10
HARD_STRATEGY ==
    <<<<"HIT", "HIT", "HIT", "HIT", "HIT", "HIT", "HIT", "HIT", "HIT", "HIT">>,
      <<"HIT", "HIT", "HIT", "HIT", "HIT", "HIT", "HIT", "HIT", "HIT", "HIT">>,
      <<"HIT", "HIT", "HIT", "HIT", "HIT", "HIT", "HIT", "HIT", "HIT", "HIT">>,
      <<"HIT", "HIT", "HIT", "HIT", "HIT", "HIT", "HIT", "HIT", "HIT", "HIT">>,
      <<"HIT", "HIT", "DOUBLE", "DOUBLE", "DOUBLE", "DOUBLE", "HIT", "HIT", "HIT", "HIT">>,
      <<"DOUBLE", "DOUBLE", "DOUBLE", "DOUBLE", "DOUBLE", "DOUBLE", "DOUBLE", "DOUBLE", "HIT", "HIT">>,
      <<"HIT", "DOUBLE", "DOUBLE", "DOUBLE", "DOUBLE", "DOUBLE", "DOUBLE", "DOUBLE", "DOUBLE", "DOUBLE">>,
      <<"HIT", "HIT", "STAND", "STAND", "STAND", "STAND", "HIT", "HIT", "HIT", "HIT">>,
      <<"HIT", "STAND", "STAND", "STAND", "STAND", "STAND", "HIT", "HIT", "HIT", "HIT">>,
      <<"HIT", "STAND", "STAND", "STAND", "STAND", "STAND", "HIT", "HIT", "HIT", "HIT">>,
      <<"HIT", "STAND", "STAND", "STAND", "STAND", "STAND", "HIT", "HIT", "HIT", "SURRENDER">>,
      <<"HIT", "STAND", "STAND", "STAND", "STAND", "STAND", "HIT", "HIT", "SURRENDER", "SURRENDER">>,
      <<"STAND", "STAND", "STAND", "STAND", "STAND", "STAND", "STAND", "STAND", "STAND", "STAND">>,
      <<"STAND", "STAND", "STAND", "STAND", "STAND", "STAND", "STAND", "STAND", "STAND", "STAND">>,
      <<"STAND", "STAND", "STAND", "STAND", "STAND", "STAND", "STAND", "STAND", "STAND", "STAND">>,
      <<"STAND", "STAND", "STAND", "STAND", "STAND", "STAND", "STAND", "STAND", "STAND", "STAND">>,
      <<"STAND", "STAND", "STAND", "STAND", "STAND", "STAND", "STAND", "STAND", "STAND", "STAND">>>>

\* the soft totals 13..20 (A,2 to A,9) against the dealer's A, 2, ..., 10; the
\* rows 8 and 9 of the array are never read
SOFT_STRATEGY ==
    <<<<"HIT", "HIT", "HIT", "DOUBLE", "DOUBLE", "HIT", "HIT", "HIT", "HIT", "HIT">>,
      <<"HIT", "HIT", "HIT", "DOUBLE", "DOUBLE", "HIT", "HIT", "HIT", "HIT", "HIT">>,
      <<"HIT", "HIT", "DOUBLE", "DOUBLE", "DOUBLE", "HIT", "HIT", "HIT", "HIT", "HIT">>,
      <<"HIT", "HIT", "DOUBLE", "DOUBLE", "DOUBLE", "HIT", "HIT", "HIT", "HIT", "HIT">>,
      <<"HIT", "DOUBLE", "DOUBLE", "DOUBLE", "DOUBLE", "HIT", "HIT", "HIT", "HIT", "HIT">>,
      <<"STAND", "STAND", "DOUBLE", "DOUBLE", "DOUBLE", "STAND", "STAND", "HIT", "HIT", "HIT">>,
      <<"STAND", "STAND", "STAND", "STAND", "STAND", "STAND", "STAND", "STAND", "STAND", "STAND">>,
      <<"STAND", "STAND", "STAND", "STAND", "STAND", "STAND", "STAND", "STAND", "STAND", "STAND">>>>

\* the pairs A,A to T,T against the dealer's A, 2, ..., 10
PAIR_STRATEGY ==
    <<<<"SPLIT", "SPLIT", "SPLIT", "SPLIT", "SPLIT", "SPLIT", "SPLIT", "SPLIT", "SPLIT", "SPLIT">>,
      <<"HIT", "HIT", "HIT", "SPLIT", "SPLIT", "HIT", "HIT", "HIT", "HIT", "HIT">>,
      <<"HIT", "HIT", "SPLIT", "SPLIT", "SPLIT", "HIT", "HIT", "HIT", "HIT", "HIT">>,
      <<"HIT", "HIT", "HIT", "SPLIT", "SPLIT", "HIT", "HIT", "HIT", "HIT", "HIT">>,
      <<"HIT", "DOUBLE", "DOUBLE", "DOUBLE", "DOUBLE", "DOUBLE", "DOUBLE", "DOUBLE", "HIT", "HIT">>,
      <<"HIT", "SPLIT", "SPLIT", "SPLIT", "SPLIT", "HIT", "HIT", "HIT", "HIT", "HIT">>,
      <<"HIT", "SPLIT", "SPLIT", "SPLIT", "SPLIT", "SPLIT", "HIT", "HIT", "HIT", "HIT">>,
      <<"SPLIT", "SPLIT", "SPLIT", "SPLIT", "SPLIT", "SPLIT", "SPLIT", "SPLIT", "SPLIT", "SPLIT">>,
      <<"STAND", "SPLIT", "SPLIT", "SPLIT", "SPLIT", "STAND", "SPLIT", "SPLIT", "STAND", "STAND">>,
      <<"STAND", "STAND", "STAND", "STAND", "STAND", "STAND", "STAND", "STAND", "STAND", "STAND">>>>

\* "dealer_idx = (dealer_upcard == 1) ? 0 : dealer_upcard - 1;
\*  if (dealer_idx < 0 || dealer_idx >= 10) dealer_idx = 9"
DealerIdx(dealer_upcard) ==
    LET dealer_idx == IF dealer_upcard = 1 THEN 0 ELSE dealer_upcard - 1
    IN  IF dealer_idx < 0 \/ dealer_idx >= 10 THEN 9 ELSE dealer_idx

\* basic_strategy_decision returning what the soft and hard tables say, legal
\* or not
BasicStrategyUnchecked(hand_cards, dealer_upcard, rules) ==
    LET hand == calculate_hand_value(hand_cards)
        dealer_idx == DealerIdx(dealer_upcard)
    IN  IF Len(hand_cards) < 2 THEN "HIT"
        ELSE IF hand.is_soft /\ hand.total >= 13 /\ hand.total <= 20
             THEN SOFT_STRATEGY[hand.total - 13 + 1][dealer_idx + 1]
        ELSE IF hand.total >= 5 /\ hand.total <= 21
             THEN HARD_STRATEGY[hand.total - 5 + 1][dealer_idx + 1]
        ELSE IF hand.total < 17 THEN "HIT" ELSE "STAND"

\* BJLogicCore::basic_strategy_decision of basic_strategy.cpp
basic_strategy_decision(hand_cards, dealer_upcard, rules) ==
    LET hand == calculate_hand_value(hand_cards)
        dealer_idx == DealerIdx(dealer_upcard)
        double_ok == Len(hand_cards) = 2
                     \/ (rules.double_after_split /\ Len(hand_cards) = 2)
        pair_idx == IF hand_cards[1] = 1 THEN 0 ELSE hand_cards[1] - 1
        pair_looked_up ==
            /\ hand.can_split /\ rules.resplitting_allowed /\ Len(hand_cards) = 2
            /\ pair_idx >= 0 /\ pair_idx < 10
        split_action == PAIR_STRATEGY[pair_idx + 1][dealer_idx + 1]
        soft_action == SOFT_STRATEGY[hand.total - 13 + 1][dealer_idx + 1]
        hard_action == HARD_STRATEGY[hand.total - 5 + 1][dealer_idx + 1]
    IN  IF Len(hand_cards) < 2 THEN "HIT"
        ELSE IF pair_looked_up /\ split_action = "SPLIT" THEN "SPLIT"
        ELSE IF pair_looked_up /\ split_action = "DOUBLE" /\ Len(hand_cards) = 2
             THEN "DOUBLE"
        ELSE IF hand.is_soft /\ hand.total >= 13 /\ hand.total <= 20
             THEN IF soft_action = "DOUBLE"
                  THEN IF double_ok THEN "DOUBLE" ELSE "HIT"
                  ELSE soft_action
        ELSE IF hand.total >= 5 /\ hand.total <= 21
             THEN IF hard_action = "SURRENDER"
                  THEN IF rules.surrender_allowed /\ Len(hand_cards) = 2
                       THEN "SURRENDER" ELSE "HIT"
                  ELSE IF hard_action = "DOUBLE"
                       THEN IF double_ok THEN "DOUBLE" ELSE "HIT"
                       ELSE hard_action
        ELSE IF hand.total < 17 THEN "HIT" ELSE "STAND"

\* "if (player_total > t) ev += p; else if (player_total < t) ev += p * (-1.0)"
Versus(acc, player_total, t, p) ==
    IF player_total > t THEN RAdd(acc, p)
    ELSE IF player_total < t THEN RSub(acc, p)
    ELSE acc

\* ev after the comparisons of player_total with the dealer's totals 17..21,
\* begun with ev = prob_bust
EvAgainstTotals(dealer_probs, player_total) ==
    Versus(Versus(Versus(Versus(Versus(dealer_probs.prob_bust,
        player_total, 17, dealer_probs.prob_17),
        player_total, 18, dealer_probs.prob_18),
        player_total, 19, dealer_probs.prob_19),
        player_total, 20, dealer_probs.prob_20),
        player_total, 21, dealer_probs.prob_21)

\* non_bj_dealer_outcomes
NonNaturalOutcomes(dealer_probs) ==
    RAdd(dealer_probs.prob_17, RAdd(dealer_probs.prob_18,
        RAdd(dealer_probs.prob_19, RAdd(dealer_probs.prob_20,
            RAdd(dealer_probs.prob_21, dealer_probs.prob_bust)))))

\* "if (dealer_probs.prob_blackjack > 0) ev += prob_blackjack * (-1.0)"
LessNatural(ev_totals, prob_blackjack) ==
    IF RGt(prob_blackjack, Zero) THEN RSub(ev_totals, prob_blackjack) ELSE ev_totals

\* a stand EV that forgets the dealer's natural against a player's 21
StandEvForgettingNatural(player_hand, dealer_probs, rules) ==
    LET player_data == calculate_hand_value(player_hand)
    IN  IF player_data.is_busted THEN RNeg(One)
        ELSE IF player_data.total = 21
             THEN EvAgainstTotals(dealer_probs, player_data.total)
        ELSE LessNatural(EvAgainstTotals(dealer_probs, player_data.total),
                         dealer_probs.prob_blackjack)

calculate_stand_ev_from_exact_probs(player_hand, dealer_probs, rules) ==
    LET player_data == calculate_hand_value(player_hand)
    IN  IF player_data.is_busted THEN RNeg(One)
        ELSE IF player_data.is_blackjack /\ Len(player_hand) = 2
             THEN RAdd(EvAgainstTotals(dealer_probs, player_data.total),
                       RMul(NonNaturalOutcomes(dealer_probs), rules.blackjack_payout))
        ELSE IF player_data.total = 21 /\ Len(player_hand) > 2
             THEN LessNatural(EvAgainstTotals(dealer_probs, player_data.total),
                              dealer_probs.prob_blackjack)
        ELSE LessNatural(EvAgainstTotals(dealer_probs, player_data.total),
                         dealer_probs.prob_blackjack)

-----------------------------------------------------------------------------
(* DeckState and its conversion *)

RECURSIVE SumCounts(_, _)
SumCounts(counts, rank) ==
    IF rank > 10 THEN 0 ELSE counts[rank] + SumCounts(counts, rank + 1)

\* a DeckState holding the given count of every rank 1..10
DeckStateOf(counts) ==
    [num_decks |-> 1, cards_remaining |-> counts, total_cards |-> SumCounts(counts, 1)]

\* int division and remainder, truncating towards zero
IntDiv(a, b) == IF a >= 0 THEN a \div b ELSE -((-a) \div b)
IntRem(a, b) == a - b * IntDiv(a, b)

convert_from_deck_state(deck_state) ==
    LET count10 == deck_state.cards_remaining[10]
        per_slot == IntDiv(count10, 4)
        remainder == IntRem(count10, 4)
    IN  [cards |-> [i \in Slots |->
                      IF i < 9 THEN deck_state.cards_remaining[i + 1]
                      ELSE per_slot + (IF i - 9 < remainder THEN 1 ELSE 0)],
         total_cards |-> SumCounts(deck_state.cards_remaining, 1)]

\* "new_deck.cards_remaining[rank]--; new_deck.total_cards--"
TakeCard(deck_state, rank) ==
    [deck_state EXCEPT !.cards_remaining[rank] = @ - 1, !.total_cards = @ - 1]

-----------------------------------------------------------------------------
(* AdvancedEVEngine: the recursive EV methods.  The engine `ae` is its            *)
(* simulation_depth and its recursive_dealer_engine; every method returns the    *)
(* engine after the call (its dealer cache is written on the way) and the value. *)

\* "int depth = 10" of the constructor
DefaultDepth == 10

\* AdvancedEVEngine(depth)
NewAdvancedEngine(depth) ==
    [simulation_depth |-> depth, recursive_dealer_engine |-> NewEngine]

\* the engine after its dealer engine answered r, and the stand EV against
\* r.result
StandAgainst(ae, player_hand, rules, r) ==
    [ae |-> [ae EXCEPT !.recursive_dealer_engine = r.engine],
     value |-> calculate_stand_ev_from_exact_probs(player_hand, r.result, rules)]

calculate_stand_ev_recursive(ae, player_hand, dealer_upcard, deck_state, rules) ==
    StandAgainst(ae, player_hand, rules,
        calculate_exact_probabilities(ae.recursive_dealer_engine, dealer_upcard,
            convert_from_deck_state(deck_state), rules))

\* the table of simplified dealer bust probabilities, in hundredths
DealerBustPercent == <<12, 35, 37, 40, 42, 42, 26, 24, 23, 21>>

calculate_dealer_bust_probability(dealer_upcard, deck_state, rules) ==
    IF dealer_upcard \in 1..10 THEN Frac(DealerBustPercent[dealer_upcard], 100)
    ELSE Frac(25, 100)

\* std::max(0.0, x) of a quotient by total_cards; 0/0 is NaN and std::max(0.0,
\* NaN) is 0.0
calculate_player_bust_probability(hand, deck_state) ==
    LET hand_data == calculate_hand_value(hand)
        bust_threshold == 21 - hand_data.total
    IN  IF hand_data.is_busted THEN One
        ELSE IF hand_data.total <= 11 THEN Zero
        ELSE IF bust_threshold <= 0 THEN One
        ELSE IF deck_state.total_cards = 0 THEN Zero
        ELSE RMax(Zero, RMul(Frac(deck_state.cards_remaining[10], deck_state.total_cards),
                             Frac(10 - bust_threshold, 10)))

calculate_stand_ev_advanced(player_hand, dealer_upcard, deck_state, rules) ==
    LET player_data == calculate_hand_value(player_hand)
        dealer_bust_prob == calculate_dealer_bust_probability(dealer_upcard, deck_state, rules)
        win_prob == RAdd(dealer_bust_prob, Frac(3, 10))
        lose_prob == RSub(RSub(One, win_prob), Frac(1, 10))
    IN  IF player_data.is_busted THEN RNeg(One)
        ELSE RSub(win_prob, lose_prob)

calculate_simple_hit_ev(hand, dealer_upcard, deck_state, rules) ==
    LET hand_data == calculate_hand_value(hand)
        bust_prob == calculate_player_bust_probability(hand, deck_state)
        dealer_bust_prob == calculate_dealer_bust_probability(dealer_upcard, deck_state, rules)
    IN  IF hand_data.is_busted THEN RNeg(One)
        ELSE IF hand_data.total >= 21
             THEN calculate_stand_ev_advanced(hand, dealer_upcard, deck_state, rules)
        ELSE RSub(RMul(RSub(One, bust_prob), dealer_bust_prob), bust_prob)

\* denominator of the tolerance 0.001
EvTolerance == 1000

\* "if (total_probability > 0.0 && std::abs(total_probability - 1.0) > 0.001)
\*      total_ev /= total_probability"
NormalizeEv(total_ev, total_probability) ==
    IF /\ RGt(total_probability, Zero)
       /\ RExceeds(RAbs(RSub(total_probability, One)), EvTolerance)
    THEN RDiv(total_ev, total_probability)
    ELSE total_ev

\* the accumulators of a loop over the next card before its first iteration
LoopStart(ae) == [ae |-> ae, total_ev |-> Zero, total_probability |-> Zero]

\* "total_probability += card_prob; ... total_ev += card_prob * branch_ev",
\* branch being the engine and the value of the branch
LoopStep(prev, card_prob, branch) ==
    [prev EXCEPT !.ae = branch.ae,
                 !.total_probability = RAdd(@, card_prob),
                 !.total_ev = RAdd(@, RMul(card_prob, branch.value))]

\* the engine and the normalised total_ev after a loop over the next card
LoopResult(loop) ==
    [ae |-> loop.ae, value |-> NormalizeEv(loop.total_ev, loop.total_probability)]

\* card_prob of a rank
CardProb(deck_state, rank) ==
    Frac(deck_state.cards_remaining[rank], deck_state.total_cards)

\* the last rank in 1..upto the loops over the next card do not skip
\* ("if (it->second <= 0) continue"), 0 when they skip them all
LastDealt(deck_state, upto) ==
    LET dealt == {r \in 1..upto : deck_state.cards_remaining[r] > 0}
    IN  IF dealt = {} THEN 0 ELSE CHOOSE r \in dealt : \A q \in dealt : q <= r

\* "std::max(first_ev, second_ev)" of two values computed one after the other,
\* with the engine the second computation left
MaxWith(first, second) ==
    [first EXCEPT !.ae = second.ae, !.value = RMax(@, second.value)]

RECURSIVE calculate_hit_ev_recursive(_, _, _, _, _, _)
RECURSIVE HitAfterRank(_, _, _, _, _, _, _)

\* a branch that always hits again
HitAgainOnly(hit_again, new_hand, dealer_upcard, new_deck, rules) == hit_again

\* "double stand_ev = calculate_stand_ev_recursive(new_hand, ...);
\*  branch_ev = std::max(hit_again_ev, stand_ev)"
StandOrHitAgain(hit_again, new_hand, dealer_upcard, new_deck, rules) ==
    MaxWith(hit_again,
            calculate_stand_ev_recursive(hit_again.ae, new_hand, dealer_upcard,
                                         new_deck, rules))

\* branch_ev of the hit loop for the hand new_hand drawn from new_deck
HitBranch(ae, new_hand, dealer_upcard, new_deck, rules, depth) ==
    LET new_hand_data == calculate_hand_value(new_hand)
    IN  IF new_hand_data.is_busted THEN [ae |-> ae, value |-> RNeg(One)]
        ELSE IF new_hand_data.total >= 21
             THEN calculate_stand_ev_recursive(ae, new_hand, dealer_upcard, new_deck, rules)
        ELSE StandOrHitAgain(
                 calculate_hit_ev_recursive(ae, new_hand, dealer_upcard, new_deck,
                                            rules, depth + 1),
                 new_hand, dealer_upcard, new_deck, rules)

\* one iteration of the loop of calculate_hit_ev_recursive: prev are the
\* accumulators before it
HitStep(rank, prev, hand, dealer_upcard, deck_state, rules, depth) ==
    IF deck_state.cards_remaining[rank] <= 0 THEN prev
    ELSE LoopStep(prev, CardProb(deck_state, rank),
             HitBranch(prev.ae, Append(hand, rank), dealer_upcard,
                       TakeCard(deck_state, rank), rules, depth))

\* the accumulators of calculate_hit_ev_recursive after the iterations
\* next_card_rank = 1..rank of its loop
HitAfterRank(rank, ae, hand, dealer_upcard, deck_state, rules, depth) ==
    IF rank < 1 THEN LoopStart(ae)
    ELSE HitStep(rank,
             HitAfterRank(LastDealt(deck_state, rank - 1), ae, hand, dealer_upcard,
                          deck_state, rules, depth),
             hand, dealer_upcard, deck_state, rules, depth)

calculate_hit_ev_recursive(ae, hand, dealer_upcard, deck_state, rules, depth) ==
    LET hand_data == calculate_hand_value(hand)
    IN  IF depth > ae.simulation_depth
        THEN [ae |-> ae,
              value |-> calculate_simple_hit_ev(hand, dealer_upcard, deck_state, rules)]
        ELSE IF hand_data.is_busted THEN [ae |-> ae, value |-> RNeg(One)]
        ELSE IF hand_data.total >= 21
             THEN calculate_stand_ev_recursive(ae, hand, dealer_upcard, deck_state, rules)
        ELSE LoopResult(HitAfterRank(LastDealt(deck_state, 10), ae, hand,
                                     dealer_upcard, deck_state, rules, depth))

\* hand_ev with every field of the result scaled: "hand_ev * 2.0"
Doubled(hand_ev) == [hand_ev EXCEPT !.value = RMul(@, Frac(2, 1))]

\* a double that keeps the single stake
DoubleStepSingleStake(rank, prev, player_hand, dealer_upcard, deck_state, rules) ==
    IF deck_state.cards_remaining[rank] <= 0 THEN prev
    ELSE LoopStep(prev, CardProb(deck_state, rank),
             calculate_stand_ev_recursive(prev.ae, Append(player_hand, rank),
                 dealer_upcard, TakeCard(deck_state, rank), rules))

\* one iteration of the loop of calculate_double_ev_recursive: prev are the
\* accumulators before it
DoubleStep(rank, prev, player_hand, dealer_upcard, deck_state, rules) ==
    IF deck_state.cards_remaining[rank] <= 0 THEN prev
    ELSE LoopStep(prev, CardProb(deck_state, rank),
             Doubled(calculate_stand_ev_recursive(prev.ae, Append(player_hand, rank),
                         dealer_upcard, TakeCard(deck_state, rank), rules)))

\* the accumulators of calculate_double_ev_recursive after the iterations
\* next_card_rank = 1..rank of its loop
RECURSIVE DoubleAfterRank(_, _, _, _, _, _)
DoubleAfterRank(rank, ae, player_hand, dealer_upcard, deck_state, rules) ==
    IF rank < 1 THEN LoopStart(ae)
    ELSE DoubleStep(rank,
             DoubleAfterRank(LastDealt(deck_state, rank - 1), ae, player_hand,
                             dealer_upcard, deck_state, rules),
             player_hand, dealer_upcard, deck_state, rules)

\* the sentinel of an unavailable action
Unavailable == RNeg(Frac(2, 1))

calculate_double_ev_recursive(ae, player_hand, dealer_upcard, deck_state, rules) ==
    IF Len(player_hand) # 2 THEN [ae |-> ae, value |-> Unavailable]
    ELSE LoopResult(DoubleAfterRank(LastDealt(deck_state, 10), ae, player_hand,
                                    dealer_upcard, deck_state, rules))

\* std::max(best_ev, -0.5)
SurrenderFloor(best_ev) == RMax(best_ev, RNeg(Frac(1, 2)))

\* rules.double_after_split is a bool: "rules.double_after_split == 2" compares
\* it, promoted to 0 or 1, with 2
DoubleAfterSplitIsTwo(rules) == (IF rules.double_after_split THEN 1 ELSE 0) = 2

\* "double hit_ev = ...; double best_ev = std::max(stand_ev, hit_ev)"
HitOrStand(stand, hand, dealer_upcard, deck_state, rules) ==
    MaxWith(stand,
            calculate_hit_ev_recursive(stand.ae, hand, dealer_upcard, deck_state,
                                       rules, 0))

\* "if (can_double) best_ev = std::max(best_ev, double_ev)"
DoubleOrBest(best, hand, dealer_upcard, deck_state, rules) ==
    LET hand_data == calculate_hand_value(hand)
        can_double ==
            /\ Len(hand) = 2
            /\ DoubleAfterSplitIsTwo(rules) => (hand_data.total = 10 \/ hand_data.total = 11)
    IN  IF can_double
        THEN MaxWith(best,
                     calculate_double_ev_recursive(best.ae, hand, dealer_upcard,
                                                   deck_state, rules))
        ELSE best

\* "if (rules.surrender_allowed && hand.size() == 2) best_ev = std::max(best_ev, -0.5)"
SurrenderOrBest(best, hand, rules) ==
    IF rules.surrender_allowed /\ Len(hand) = 2
    THEN [best EXCEPT !.value = SurrenderFloor(@)]
    ELSE best

calculate_optimal_play_ev(ae, hand, dealer_upcard, deck_state, rules) ==
    SurrenderOrBest(
        DoubleOrBest(
            HitOrStand(
                calculate_stand_ev_recursive(ae, hand, dealer_upcard, deck_state, rules),
                hand, dealer_upcard, deck_state, rules),
            hand, dealer_upcard, deck_state, rules),
        hand, rules)

RECURSIVE calculate_split_ev_advanced(_, _, _, _, _, _)
RECURSIVE SplitAfterRank(_, _, _, _, _, _, _)

\* "double play_ev = calculate_optimal_play_ev(split_hand, ...);
\*  hand_ev = std::max(resplit_ev, play_ev)"
PlayOrResplit(resplit, split_hand, dealer_upcard, new_deck, rules) ==
    MaxWith(resplit,
            calculate_optimal_play_ev(resplit.ae, split_hand, dealer_upcard,
                                      new_deck, rules))

\* hand_ev of the split loop for the hand split_hand drawn from new_deck
SplitBranch(ae, split_hand, pair_rank, dealer_upcard, new_deck, rules, splits_remaining) ==
    IF split_hand[2] = pair_rank /\ splits_remaining > 0 /\ rules.resplitting_allowed
    THEN PlayOrResplit(
             calculate_split_ev_advanced(ae, split_hand, dealer_upcard, new_deck,
                                         rules, splits_remaining - 1),
             split_hand, dealer_upcard, new_deck, rules)
    ELSE calculate_optimal_play_ev(ae, split_hand, dealer_upcard, new_deck, rules)

\* one iteration of the loop of calculate_split_hand_ev: prev are the
\* accumulators before it
SplitStep(rank, prev, pair_rank, dealer_upcard, deck_state, rules, splits_remaining) ==
    IF deck_state.cards_remaining[rank] <= 0 THEN prev
    ELSE LoopStep(prev, CardProb(deck_state, rank),
             SplitBranch(prev.ae, <<pair_rank, rank>>, pair_rank, dealer_upcard,
                         TakeCard(deck_state, rank), rules, splits_remaining))

\* the accumulators of calculate_split_hand_ev after the iterations
\* second_card_rank = 1..rank of its loop
SplitAfterRank(rank, ae, pair_rank, dealer_upcard, deck_state, rules, splits_remaining) ==
    IF rank < 1 THEN LoopStart(ae)
    ELSE SplitStep(rank,
             SplitAfterRank(LastDealt(deck_state, rank - 1), ae, pair_rank,
                            dealer_upcard, deck_state, rules, splits_remaining),
             pair_rank, dealer_upcard, deck_state, rules, splits_remaining)

calculate_split_hand_ev(ae, pair_rank, dealer_upcard, deck_state, rules, splits_remaining) ==
    LoopResult(SplitAfterRank(LastDealt(deck_state, 10), ae, pair_rank, dealer_upcard,
                              deck_state, rules, splits_remaining))

\* "total_ev += hand_ev" for the second hand, then "return total_ev / 2.0"
AverageWith(first, second) ==
    [first EXCEPT !.ae = second.ae,
                  !.value = RDiv(RAdd(@, second.value), Frac(2, 1))]

\* the second iteration of "for (int split_hand = 0; split_hand < 2; ++split_hand)"
\* after the first
BothSplitHands(first, pair_rank, dealer_upcard, deck_state, rules, splits_remaining) ==
    AverageWith(first,
                calculate_split_hand_ev(first.ae, pair_rank, dealer_upcard,
                                        deck_state, rules, splits_remaining))

calculate_split_ev_advanced(ae, pair_hand, dealer_upcard, deck_state, rules, splits_remaining) ==
    IF Len(pair_hand) # 2 \/ pair_hand[1] # pair_hand[2]
    THEN [ae |-> ae, value |-> Unavailable]
    ELSE IF splits_remaining <= 0
         THEN calculate_optimal_play_ev(ae, pair_hand, dealer_upcard, deck_state, rules)
    ELSE BothSplitHands(
             calculate_split_hand_ev(ae, pair_hand[1], dealer_upcard, deck_state,
                                     rules, splits_remaining),
             pair_hand[1], dealer_upcard, deck_state, rules, splits_remaining)

RECURSIVE OneCardAfterRank(_, _, _, _, _)

\* one iteration of the loop of calculate_split_aces_one_card_ev: the final
\* hand is the ace and the card, and it stands
OneCardStep(rank, prev, dealer_upcard, deck_state, rules) ==
    IF deck_state.cards_remaining[rank] <= 0 THEN prev
    ELSE LoopStep(prev, CardProb(deck_state, rank),
             calculate_stand_ev_recursive(prev.ae, <<1, rank>>, dealer_upcard,
                                          TakeCard(deck_state, rank), rules))

\* the accumulators of calculate_split_aces_one_card_ev after the iterations
\* 1..rank of its loop
OneCardAfterRank(rank, ae, dealer_upcard, deck_state, rules) ==
    IF rank < 1 THEN LoopStart(ae)
    ELSE OneCardStep(rank,
             OneCardAfterRank(LastDealt(deck_state, rank - 1), ae, dealer_upcard,
                              deck_state, rules),
             dealer_upcard, deck_state, rules)

calculate_split_aces_one_card_ev(ae, dealer_upcard, deck_state, rules) ==
    LoopResult(OneCardAfterRank(LastDealt(deck_state, 10), ae, dealer_upcard,
                                deck_state, rules))

\* DetailedEV(): the fields the recursive entry points write or compare
NewDetailedEV ==
    [stand_ev |-> RNeg(One), hit_ev |-> RNeg(One), double_ev |-> RNeg(One),
     split_ev |-> RNeg(One), surrender_ev |-> RNeg(Frac(1, 2)),
     insurance_ev |-> RNeg(One), composition_dependent_ev |-> Zero,
     optimal_action |-> "STAND", optimal_ev |-> RNeg(One)]

\* a challenge that an EV equal to the maximum so far wins as well
ChallengeOnTie(best, x_ev, action) ==
    IF ~RLt(x_ev, best.max_ev) THEN [max_ev |-> x_ev, action |-> action] ELSE best

\* the EV challenges the maximum so far: "if (ev.x_ev > max_ev) {...}"
Challenge(best, x_ev, action) ==
    IF RGt(x_ev, best.max_ev) THEN [max_ev |-> x_ev, action |-> action] ELSE best

determine_optimal_action(detailed) ==
    LET best == Challenge(Challenge(Challenge(Challenge(
                    [max_ev |-> detailed.stand_ev, action |-> "STAND"],
                    detailed.hit_ev, "HIT"),
                    detailed.double_ev, "DOUBLE"),
                    detailed.split_ev, "SPLIT"),
                    detailed.surrender_ev, "SURRENDER")
    IN  [detailed EXCEPT !.optimal_action = best.action, !.optimal_ev = best.max_ev]

\* (ten_density - 16.0 / 52.0) * 0.05; the quotient by total_cards = 0 is not a
\* number
calculate_composition_adjustment(player_hand, dealer_upcard, deck_state) ==
    IF deck_state.total_cards = 0 THEN "NaN"
    ELSE RMul(RSub(Frac(deck_state.cards_remaining[10], deck_state.total_cards),
                   Frac(16, 52)),
              Frac(5, 100))

\* the engine and the DetailedEV under construction, with the stand EV written
WithStandEv(result, stand) ==
    [ae |-> stand.ae, result |-> [result EXCEPT !.stand_ev = stand.value]]

\* "result.hit_ev = calculate_hit_ev_recursive(...)"
WithHitEv(so_far, hit) ==
    [so_far EXCEPT !.ae = hit.ae, !.result.hit_ev = hit.value]

\* "result.double_ev = calculate_double_ev_recursive(...)"
WithDoubleEv(so_far, double) ==
    [so_far EXCEPT !.ae = double.ae, !.result.double_ev = double.value]

\* "result.hit_ev = ..." on the engine the stand EV left
ThenHitEv(so_far, player_hand, dealer_upcard, deck_state, rules) ==
    WithHitEv(so_far,
              calculate_hit_ev_recursive(so_far.ae, player_hand, dealer_upcard,
                                          deck_state, rules, 0))

\* "if (player_hand.size() == 2) result.double_ev = ..." on the engine the hit
\* EV left
ThenDoubleEv(so_far, player_hand, dealer_upcard, deck_state, rules) ==
    IF Len(player_hand) = 2
    THEN WithDoubleEv(so_far,
                      calculate_double_ev_recursive(so_far.ae, player_hand,
                                                    dealer_upcard, deck_state, rules))
    ELSE so_far

\* "result.composition_dependent_ev = ...; determine_optimal_action(result)"
ThenAdjustAndDecide(so_far, player_hand, dealer_upcard, deck_state) ==
    [so_far EXCEPT !.result =
        determine_optimal_action(
            [@ EXCEPT !.composition_dependent_ev =
                 calculate_composition_adjustment(player_hand, dealer_upcard,
                                                  deck_state)])]

\* returns the engine after the call and the DetailedEV
calculate_composition_dependent_ev(ae, player_hand, dealer_upcard, deck_state, rules) ==
    ThenAdjustAndDecide(
        ThenDoubleEv(
            ThenHitEv(
                WithStandEv(NewDetailedEV,
                    calculate_stand_ev_recursive(ae, player_hand, dealer_upcard,
                                                 deck_state, rules)),
                player_hand, dealer_upcard, deck_state, rules),
            player_hand, dealer_upcard, deck_state, rules),
        player_hand, dealer_upcard, deck_state)

-----------------------------------------------------------------------------
(* The shoes, hands and rules the model draws its inputs from *)

\* the ranks left in a depleted shoe
ShoeRanks == {1, 2, 6, 10}

ShoeFamily ==
    {DeckStateOf(c) : c \in
        {f \in [Ranks -> 0..MaxPerRank] :
            /\ \A r \in Ranks \ ShoeRanks : f[r] = 0
            /\ SumCounts(f, 1) <= MaxCards}}

\* dealer hands calculate_recursive is called on directly
DealerHands == {<<1>>, <<6>>, <<10>>, <<1, 10>>, <<6, 1>>, <<10, 6>>}

\* player hands whose stand EV is asked for: a natural, a three-card 21, a
\* soft 19, 20, 17, 16 and a busted hand
PlayerHands ==
    {<<1, 10>>, <<10, 6, 5>>, <<1, 8>>, <<10, 10>>, <<10, 7>>, <<10, 6>>, <<10, 6, 10>>}

\* blackjack_payout: 3:2 and 6:5
Payouts == {<<3, 2>>, <<6, 5>>}

NoCall == [op |-> "none"]

-----------------------------------------------------------------------------
(* The dealer engine driven by a caller *)

Init ==
    /\ shoe \in ShoeFamily
    /\ deck = convert_from_deck_state(shoe)
    /\ engine = NewEngine
    /\ probs = NewProbs
    /\ call = NoCall
    /\ ret = Zero
    /\ last_ev = NewDetailedEV
    /\ simulation_depth = DefaultDepth
    /\ calls = 0
    /\ stack = <<>>
    /\ sums = <<>>

\* the engine is left as the query r left it and the caller keeps its result
QueryReturned(r) ==
    /\ engine' = r.engine
    /\ probs' = r.result

\* engine.calculate_exact_probabilities(upcard, deck, rules)
Query(upcard, h17) ==
    /\ calls < MaxQueries
    /\ calls' = calls + 1
    /\ QueryReturned(calculate_exact_probabilities(engine, upcard, deck,
                                                   DefaultRules(h17)))
    /\ call' = [op |-> "exact", upcard |-> upcard, h17 |-> h17]
    /\ UNCHANGED <<sums, stack, deck, shoe, ret, last_ev, simulation_depth>>

\* engine.calculate_recursive(hand, deck, rules)
Recursive(hand, h17) ==
    /\ calls < MaxQueries
    /\ calls' = calls + 1
    /\ probs' = calculate_recursive(hand, deck, DefaultRules(h17), 0)
    /\ call' = [op |-> "recursive", hand |-> hand, h17 |-> h17]
    /\ UNCHANGED <<sums, stack, deck, shoe, engine, ret, last_ev, simulation_depth>>

\* engine.calculate_stand_ev_from_exact_probs(player_hand, probs, rules) on the
\* distribution the engine returned last
StandEV(player_hand, payout) ==
    /\ calls < MaxQueries
    /\ call.op \in {"exact", "recursive"}
    /\ calls' = calls + 1
    /\ ret' = calculate_stand_ev_from_exact_probs(player_hand, probs,
                 [DefaultRules(call.h17) EXCEPT !.blackjack_payout = payout])
    /\ call' = [op |-> "stand", hand |-> player_hand, blackjack_payout |-> payout]
    /\ UNCHANGED <<sums, stack, deck, shoe, engine, probs, last_ev, simulation_depth>>

\* engine.clear_cache()
ClearCache ==
    /\ engine.cache # <<>>
    /\ engine' = clear_cache(engine)
    /\ call' = [op |-> "clear"]
    /\ UNCHANGED <<sums, stack, deck, shoe, probs, ret, last_ev, simulation_depth, calls>>

Next ==
    \/ \E upcard \in Ranks, h17 \in BOOLEAN : Query(upcard, h17)
    \/ \E hand \in DealerHands, h17 \in BOOLEAN : Recursive(hand, h17)
    \/ \E player_hand \in PlayerHands, payout \in Payouts : StandEV(player_hand, payout)
    \/ ClearCache

Spec == Init /\ [][Next]_vars

-----------------------------------------------------------------------------
(* Properties of calculate_exact_probabilities and calculate_recursive *)

ExactCall == call.op = "exact"

\* the deck the engine works on once the upcard is taken out
WorkingDeck == remove_card(deck, call.upcard)

SameBuckets(p, q) ==
    /\ p.prob_17 = q.prob_17 /\ p.prob_18 = q.prob_18 /\ p.prob_19 = q.prob_19
    /\ p.prob_20 = q.prob_20 /\ p.prob_21 = q.prob_21 /\ p.prob_bust = q.prob_bust
    /\ p.prob_blackjack = q.prob_blackjack

\* C1: after calculate_exact_probabilities the seven buckets (17, 18, 19, 20,
\* 21, bust, blackjack) sum to 1, whatever the upcard, the composition and the
\* soft-17 rule.
C1_BucketsSumToOne ==
    ExactCall => get_total_probability(probs) = One

\* the rank of the hole card that completes a natural with the upcard
NeededForBJ(upcard) == IF upcard = 1 THEN 10 ELSE 1

\* the dealer's outcome over the hole cards `rank`..10 other than `excluded`,
\* each weighted by its share of the `rest` cards that are not `excluded`
RECURSIVE HoleCardBranches(_, _, _, _, _, _, _)
HoleCardBranches(rank, upcard, d, rules, excluded, rest, result) ==
    IF rank > 10 THEN result
    ELSE IF rank = excluded \/ get_cards_for_rank(d, rank) <= 0
         THEN HoleCardBranches(rank + 1, upcard, d, rules, excluded, rest, result)
         ELSE HoleCardBranches(rank + 1, upcard, d, rules, excluded, rest,
                  Accumulate(result, Frac(get_cards_for_rank(d, rank), rest),
                      calculate_recursive(<<upcard, rank>>, remove_card(d, rank),
                                          rules, 1)))

\* the distribution of the dealer's hand given that the hole card does not
\* complete a natural
ConditionedOnNoNatural(upcard, d, rules) ==
    HoleCardBranches(1, upcard, d, rules, NeededForBJ(upcard),
        d.total_cards - get_cards_for_rank(d, NeededForBJ(upcard)), NewProbs)

\* C2: for an upcard of Ace or ten that leaves the natural uncertain, the six
\* non-blackjack buckets equal (1 - prob_blackjack) times the distribution
\* conditioned on a hole card that does not complete the natural, and
\* prob_blackjack is the share of completing cards in the working deck.
C2_ConditionedOnNoNatural ==
    (ExactCall /\ call.upcard \in {1, 10} /\ WorkingDeck.total_cards > 0
        /\ probs.prob_blackjack # One)
    => SameBuckets(probs,
           [Scale(ConditionedOnNoNatural(call.upcard, WorkingDeck,
                                         DefaultRules(call.h17)),
                  RSub(One, probs.prob_blackjack))
               EXCEPT !.prob_blackjack =
                   get_probability(WorkingDeck, NeededForBJ(call.upcard))])

-----------------------------------------------------------------------------
(* One engine queried with several shoes: the cache across compositions *)

\* a DeckComposition with the given count in every slot
CompositionOf(cards) ==
    [cards |-> cards,
     total_cards |-> cards[0] + cards[1] + cards[2] + cards[3] + cards[4]
                     + cards[5] + cards[6] + cards[7] + cards[8] + cards[9]
                     + cards[10] + cards[11] + cards[12]]

\* what is left of five decks once the low cards, the eights and nines are
\* gone: 18 sixes, 6 sevens, 5 tens, 14 jacks, 13 queens
SixesAndTens ==
    CompositionOf([i \in Slots |->
        CASE i = 5 -> 18 [] i = 6 -> 6 [] i = 9 -> 5 [] i = 10 -> 14
          [] i = 11 -> 13 [] OTHER -> 0])

\* what is left of five decks late in the shoe: 4 threes, 3 fours, 1 five,
\* 6 eights, 5 nines, 2 kings
LowCardsAndKings ==
    CompositionOf([i \in Slots |->
        CASE i = 2 -> 4 [] i = 3 -> 3 [] i = 4 -> 1 [] i = 7 -> 6
          [] i = 8 -> 5 [] i = 12 -> 2 [] OTHER -> 0])

KeyDecks == {SixesAndTens, LowCardsAndKings}

KeyUpcards == {1, 9, 10}

\* the DeckState holding the same cards as a DeckComposition
ShoeOf(d) ==
    [DeckStateOf([r \in Ranks |-> get_cards_for_rank(d, r)]) EXCEPT !.num_decks = 5]

InitKey ==
    /\ deck \in KeyDecks
    /\ shoe = ShoeOf(deck)
    /\ engine = NewEngine
    /\ probs = NewProbs
    /\ call = NoCall
    /\ ret = Zero
    /\ last_ev = NewDetailedEV
    /\ simulation_depth = DefaultDepth
    /\ calls = 0
    /\ stack = <<>>
    /\ sums = <<>>

\* engine.calculate_exact_probabilities(upcard, d, rules)
QueryOn(d, upcard, h17) ==
    /\ calls < MaxQueries
    /\ calls' = calls + 1
    /\ deck' = d
    /\ shoe' = ShoeOf(d)
    /\ QueryReturned(calculate_exact_probabilities(engine, upcard, d, DefaultRules(h17)))
    /\ call' = [op |-> "exact", upcard |-> upcard, h17 |-> h17]
    /\ UNCHANGED <<sums, stack, ret, last_ev, simulation_depth>>

NextKey ==
    \/ \E d \in KeyDecks, upcard \in KeyUpcards, h17 \in BOOLEAN : QueryOn(d, upcard, h17)
    \/ ClearCache

SpecKey == InitKey /\ [][NextKey]_vars

\* C4: every call of calculate_exact_probabilities, whatever was asked of the
\* same engine before and wherever clear_cache was called, returns the seven
\* probabilities an engine with an empty cache computes for the same upcard,
\* composition and rules.
C4_CacheTransparent ==
    ExactCall =>
        SameBuckets(probs, ComputeExact(call.upcard, WorkingDeck, DefaultRules(call.h17)))

-----------------------------------------------------------------------------
(* Properties of calculate_stand_ev_from_exact_probs *)

StandCall == call.op = "stand"

\* the bucket of the dealer total t in 17..21
ProbOfTotal(p, t) ==
    CASE t = 17 -> p.prob_17 [] t = 18 -> p.prob_18 [] t = 19 -> p.prob_19
      [] t = 20 -> p.prob_20 [] t = 21 -> p.prob_21

\* +p for a dealer total below the player's, -p above it, 0 at a tie
Outcome(player_total, t, p) ==
    IF t < player_total THEN p ELSE IF t > player_total THEN RNeg(p) ELSE Zero

\* P(bust) + sum of the totals the player beats - sum of the totals that beat
\* the player - P(dealer blackjack)
StandEvByTotals(player_total, p) ==
    RSub(RAdd(p.prob_bust,
             RAdd(Outcome(player_total, 17, p.prob_17),
             RAdd(Outcome(player_total, 18, p.prob_18),
             RAdd(Outcome(player_total, 19, p.prob_19),
             RAdd(Outcome(player_total, 20, p.prob_20),
                  Outcome(player_total, 21, p.prob_21)))))),
         p.prob_blackjack)

\* C5: for a player hand that is neither busted nor a natural the stand EV is
\* P(bust) + P(dealer total below the player's) - P(dealer total above the
\* player's) - P(dealer blackjack), a tie at a non-blackjack total counting 0;
\* a busted hand returns -1.
C5_StandEvByTotals ==
    StandCall =>
        LET h == calculate_hand_value(call.hand)
        IN  /\ h.is_busted => ret = RNeg(One)
            /\ (~h.is_busted /\ ~h.is_blackjack) => ret = StandEvByTotals(h.total, probs)

\* a three-card 21 stood against a dealer who can have a natural and can bust
C5_ThreeCard21AgainstNatural ==
    /\ StandCall
    /\ call.hand = <<10, 6, 5>>
    /\ probs.prob_blackjack # Zero
    /\ probs.prob_bust # Zero
    /\ ret = RSub(probs.prob_bust, probs.prob_blackjack)

\* C6: for a player natural the stand EV is blackjack_payout x (1 -
\* prob_blackjack): every dealer outcome but a natural pays blackjack_payout
\* in total, a dealer natural pushes, and the EV never exceeds blackjack_payout
\* (stated for a dealer distribution that sums to 1).
C6_NaturalPaysPayout ==
    (StandCall /\ calculate_hand_value(call.hand).is_blackjack
        /\ get_total_probability(probs) = One) =>
        /\ ret = RMul(call.blackjack_payout, RSub(One, probs.prob_blackjack))
        /\ ~RGt(ret, call.blackjack_payout)

-----------------------------------------------------------------------------
(* The EV engine driven by a caller *)

\* the AdvancedEVEngine of the current state
ThisEngine == [simulation_depth |-> simulation_depth, recursive_dealer_engine |-> engine]

SimulationDepths == {0, DefaultDepth}

EVUpcards == {6, 10}

\* the default rules with and without surrender
EVRules == {[DefaultRules(TRUE) EXCEPT !.surrender_allowed = s] : s \in BOOLEAN}

\* hands asked for every EV: a pair of aces, a hard 16, a busted three-card
\* hand, a three-card 10 and a three-card 21
EVHands == {<<1, 1>>, <<10, 6>>, <<10, 6, 10>>, <<6, 2, 2>>, <<10, 6, 5>>}

InitEV ==
    /\ shoe \in ShoeFamily
    /\ deck = convert_from_deck_state(shoe)
    /\ engine = NewEngine
    /\ probs = NewProbs
    /\ call = NoCall
    /\ ret = Zero
    /\ last_ev = NewDetailedEV
    /\ simulation_depth \in SimulationDepths
    /\ calls = 0
    /\ stack = <<>>
    /\ sums = <<>>

\* the dealer engine is left as the call r left it and the caller keeps the
\* DetailedEV
DetailedReturned(r) ==
    /\ engine' = r.ae.recursive_dealer_engine
    /\ last_ev' = r.result

\* the dealer engine is left as the call r left it and the caller keeps the EV
ValueReturned(r) ==
    /\ engine' = r.ae.recursive_dealer_engine
    /\ ret' = r.value

\* ev_engine.calculate_composition_dependent_ev(player_hand, dealer_upcard, shoe, rules)
CompositionEV(player_hand, dealer_upcard, rules) ==
    /\ calls < MaxEvCalls
    /\ calls' = calls + 1
    /\ DetailedReturned(calculate_composition_dependent_ev(ThisEngine, player_hand,
                                                           dealer_upcard, shoe, rules))
    /\ call' = [op |-> "composition", hand |-> player_hand, upcard |-> dealer_upcard,
                rules |-> rules]
    /\ UNCHANGED <<sums, stack, deck, shoe, probs, ret, simulation_depth>>

\* ev_engine.calculate_double_ev_recursive(player_hand, dealer_upcard, shoe, rules)
DoubleEV(player_hand, dealer_upcard, rules) ==
    /\ calls < MaxEvCalls
    /\ calls' = calls + 1
    /\ ValueReturned(calculate_double_ev_recursive(ThisEngine, player_hand,
                                                   dealer_upcard, shoe, rules))
    /\ call' = [op |-> "double", hand |-> player_hand, upcard |-> dealer_upcard,
                rules |-> rules]
    /\ UNCHANGED <<sums, stack, deck, shoe, probs, last_ev, simulation_depth>>

\* ev_engine.calculate_split_ev_advanced(pair_hand, dealer_upcard, shoe, rules,
\*                                       rules.max_split_hands - 1)
SplitEV(pair_hand, dealer_upcard, rules) ==
    /\ calls < MaxEvCalls
    /\ calls' = calls + 1
    /\ ValueReturned(calculate_split_ev_advanced(ThisEngine, pair_hand, dealer_upcard,
                                                 shoe, rules,
                                                 rules.max_split_hands - 1))
    /\ call' = [op |-> "split", hand |-> pair_hand, upcard |-> dealer_upcard,
                rules |-> rules]
    /\ UNCHANGED <<sums, stack, deck, shoe, probs, last_ev, simulation_depth>>

NextEV ==
    \/ \E h \in EVHands, u \in EVUpcards, rules \in EVRules : CompositionEV(h, u, rules)
    \/ \E h \in EVHands, u \in EVUpcards, rules \in EVRules : DoubleEV(h, u, rules)
    \/ \E h \in EVHands, u \in EVUpcards, rules \in EVRules : SplitEV(h, u, rules)

SpecEV == InitEV /\ [][NextEV]_vars

-----------------------------------------------------------------------------
(* Properties of the EV entry points *)

CompositionCall == call.op = "composition"
DoubleCall == call.op = "double"
SplitCall == call.op = "split"

IsPair(hand) == Len(hand) = 2 /\ hand[1] = hand[2]

\* C7: the optimal_action of a returned DetailedEV is legal for the query:
\* DOUBLE only for a two-card hand, SPLIT only for a two-card pair, SURRENDER
\* only for a two-card hand when the rules allow surrender.
C7_OptimalActionLegal ==
    CompositionCall =>
        /\ last_ev.optimal_action = "DOUBLE" => Len(call.hand) = 2
        /\ last_ev.optimal_action = "SPLIT" => IsPair(call.hand)
        /\ last_ev.optimal_action = "SURRENDER" =>
               (call.rules.surrender_allowed /\ Len(call.hand) = 2)

\* C8: in a returned DetailedEV the double EV of a hand that has not exactly
\* two cards, and the split EV of a hand that is not a two-card pair, are the
\* sentinel -2.
C8_UnavailableIsSentinel ==
    CompositionCall =>
        /\ Len(call.hand) # 2 => last_ev.double_ev = Unavailable
        /\ ~IsPair(call.hand) => last_ev.split_ev = Unavailable

\* the EV of a hand asked of an engine with an empty cache
FreshValue(r) == r.value

\* C9: under split_aces_one_card the split EV of a pair of aces is the EV of
\* giving each ace one card and standing, as calculate_split_aces_one_card_ev
\* computes it.
C9_SplitAcesOneCard ==
    (SplitCall /\ call.hand = <<1, 1>> /\ call.rules.split_aces_one_card) =>
        ret = FreshValue(calculate_split_aces_one_card_ev(
                  NewAdvancedEngine(simulation_depth), call.upcard, shoe, call.rules))

RECURSIVE DoubledStandSum(_, _, _, _, _)
\* the sum over the ranks rank..10 the deck holds of P(r) x 2 x the stand EV
\* of the hand with r, against the deck without that r
DoubledStandSum(rank, hand, dealer_upcard, deck_state, rules) ==
    IF rank > 10 THEN Zero
    ELSE IF deck_state.cards_remaining[rank] <= 0
         THEN DoubledStandSum(rank + 1, hand, dealer_upcard, deck_state, rules)
    ELSE RAdd(DoubledStandSum(rank + 1, hand, dealer_upcard, deck_state, rules),
              RMul(Frac(2 * deck_state.cards_remaining[rank], deck_state.total_cards),
                   FreshValue(calculate_stand_ev_recursive(
                       NewAdvancedEngine(simulation_depth), Append(hand, rank),
                       dealer_upcard, TakeCard(deck_state, rank), rules))))

\* C10: calculate_double_ev_recursive returns -2 for a hand that has not
\* exactly two cards, and for a two-card hand the sum over the ranks of the
\* deck of P(r) x 2 x stand EV of the hand with r: one card, then stand,
\* doubled.
C10_DoubleIsOneCardDoubled ==
    DoubleCall =>
        ret = IF Len(call.hand) # 2 THEN Unavailable
              ELSE DoubledStandSum(1, call.hand, call.upcard, shoe, call.rules)

\* a hard 16 doubled on a deck of MaxCards cards of more than one rank, for
\* an EV that is not zero
C10_DoubledHard16 ==
    /\ DoubleCall
    /\ call.hand = <<10, 6>>
    /\ shoe.total_cards = MaxCards
    /\ \E r, q \in Ranks : r # q /\ shoe.cards_remaining[r] > 0
                                /\ shoe.cards_remaining[q] > 0
    /\ ret # Zero
    /\ ret # Unavailable

-----------------------------------------------------------------------------
(* BJLogicCore::calculate_hand_value on every short hand, cards outside 1..10
   included *)

MaxHandCards == 3

\* the int values a caller passes as cards: the ranks and one value on either
\* side of them
CardValues == 0..11

HandsOfCards(values) == UNION {[1..n -> values] : n \in 0..MaxHandCards}

InitHand ==
    /\ shoe = DeckStateOf([r \in Ranks |-> 0])
    /\ deck = convert_from_deck_state(shoe)
    /\ engine = NewEngine
    /\ probs = NewProbs
    /\ call = NoCall
    /\ ret = Zero
    /\ last_ev = NewDetailedEV
    /\ simulation_depth = DefaultDepth
    /\ calls = 0
    /\ stack = <<>>
    /\ sums = <<>>

\* BJLogicCore::calculate_hand_value(cards), the one call of a behaviour; no
\* path of the function throws
HandValue(cards) ==
    /\ call = NoCall
    /\ call' = [op |-> "hand_value", cards |-> cards, outcome |-> "returned"]
    /\ ret' = calculate_hand_value(cards)
    /\ UNCHANGED <<sums, stack, deck, shoe, engine, probs, last_ev, simulation_depth, calls>>

\* the rules basic_strategy_decision reads
StrategyRules ==
    {[DefaultRules(TRUE) EXCEPT !.surrender_allowed = s, !.resplitting_allowed = p] :
        s, p \in BOOLEAN}

\* BJLogicCore::basic_strategy_decision(hand_cards, dealer_upcard, rules), the
\* one call of a behaviour
BasicStrategy(hand_cards, dealer_upcard, rules) ==
    /\ call = NoCall
    /\ call' = [op |-> "basic_strategy", cards |-> hand_cards,
                upcard |-> dealer_upcard, rules |-> rules, outcome |-> "returned"]
    /\ ret' = basic_strategy_decision(hand_cards, dealer_upcard, rules)
    /\ UNCHANGED <<sums, stack, deck, shoe, engine, probs, last_ev, simulation_depth, calls>>

NextHand ==
    \/ /\ call = NoCall
       /\ \E cards \in HandsOfCards(CardValues) : HandValue(cards)
    \/ /\ call = NoCall
       /\ \E cards \in HandsOfCards(CardValues), upcard \in CardValues,
             rules \in StrategyRules : BasicStrategy(cards, upcard, rules)

SpecHand == InitHand /\ [][NextHand]_vars

\* calculate_hand_value was called on a non-empty hand of ranks 1..10
HandOfRanks ==
    /\ call.op = "hand_value"
    /\ call.cards # <<>>
    /\ \A i \in DOMAIN call.cards : call.cards[i] \in Ranks

RECURSIVE AcesAsOne(_)
\* the sum of the cards, every ace counting 1
AcesAsOne(cards) ==
    IF cards = <<>> THEN 0 ELSE Head(cards) + AcesAsOne(Tail(cards))

\* how many aces count eleven: the most for which the total stays within 21
Promoted(cards) ==
    LET aces == Cardinality({i \in DOMAIN cards : cards[i] = 1})
        fit == {k \in 0..aces : k = 0 \/ AcesAsOne(cards) + 10 * k <= 21}
    IN  CHOOSE k \in fit : \A j \in fit : j <= k

\* the hand with its cards in the order p
Reordered(cards, p) == [i \in DOMAIN cards |-> cards[p[i]]]

\* C11: for a non-empty hand of ranks 1..10 total is the sum with aces as 1
\* plus 10 for every promoted ace, is_soft iff an ace is promoted and total <
\* 21, is_busted iff total > 21, is_blackjack iff two cards make 21, can_split
\* iff two cards of one rank; no reordering of the cards changes total,
\* is_soft, is_busted or is_blackjack.
C11_HandValue ==
    HandOfRanks =>
        LET cards == call.cards
            total == AcesAsOne(cards) + 10 * Promoted(cards)
        IN  /\ ret.total = total
            /\ ret.is_soft = (Promoted(cards) >= 1 /\ total < 21)
            /\ ret.is_busted = (total > 21)
            /\ ret.is_blackjack = (Len(cards) = 2 /\ total = 21)
            /\ ret.can_split = (Len(cards) = 2 /\ cards[1] = cards[2])
            /\ \A p \in Permutations(DOMAIN cards) :
                   LET other == calculate_hand_value(Reordered(cards, p))
                   IN  /\ other.total = ret.total
                       /\ other.is_soft = ret.is_soft
                       /\ other.is_busted = ret.is_busted
                       /\ other.is_blackjack = ret.is_blackjack

\* two aces and a nine: one ace counts eleven, the total is 21 and not soft
C11_AceAceNine ==
    /\ HandOfRanks
    /\ call.cards = <<1, 1, 9>>
    /\ ret.total = 21
    /\ ~ret.is_soft
    /\ ~ret.is_blackjack

-----------------------------------------------------------------------------
(* DeckComposition::remove_card on fresh and on converted compositions *)

MaxRemoves == 3

\* DeckState(decks)
NewDeckState(decks) ==
    [num_decks |-> decks,
     cards_remaining |-> [r \in Ranks |-> IF r = 10 THEN 16 * decks ELSE 4 * decks],
     total_cards |-> 52 * decks]

\* the DeckStates a caller hands over: the counts of the fives and of the
\* tens are any small int, a negative one included
CallerDeckStates ==
    {DeckStateOf([r \in Ranks |-> IF r = 5 THEN c[1] ELSE IF r = 10 THEN c[2] ELSE 0]) :
        c \in (-1..MaxPerRank) \X (-1..MaxPerRank + 1)}

\* the int values a caller passes as the rank of remove_card
RemoveRanks == {0, 1, 5, 10, 11}

InitDeck ==
    /\ \/ /\ shoe = NewDeckState(1)
          /\ deck = FreshComposition(1)
       \/ /\ shoe \in CallerDeckStates
          /\ deck = convert_from_deck_state(shoe)
    /\ engine = NewEngine
    /\ probs = NewProbs
    /\ call = NoCall
    /\ ret = Zero
    /\ last_ev = NewDetailedEV
    /\ simulation_depth = DefaultDepth
    /\ calls = 0
    /\ stack = <<>>
    /\ sums = <<>>

\* deck.remove_card(rank); the call keeps the composition it was made on
RemoveCard(rank) ==
    /\ calls < MaxRemoves
    /\ calls' = calls + 1
    /\ deck' = remove_card(deck, rank)
    /\ call' = [op |-> "remove", rank |-> rank, before |-> deck]
    /\ UNCHANGED <<sums, stack, shoe, engine, probs, ret, last_ev, simulation_depth>>

\* deck.get_probability(rank); no path of the function throws
Probability(rank) ==
    /\ calls < MaxRemoves
    /\ calls' = calls + 1
    /\ ret' = get_probability(deck, rank)
    /\ call' = [op |-> "probability", rank |-> rank, before |-> deck,
                outcome |-> "returned"]
    /\ UNCHANGED <<sums, stack, deck, shoe, engine, probs, last_ev, simulation_depth>>

NextDeck ==
    \/ \E rank \in RemoveRanks : RemoveCard(rank)
    \/ \E rank \in RemoveRanks : Probability(rank)

SpecDeck == InitDeck /\ [][NextDeck]_vars

\* the slots holding the cards of a rank
SlotsOf(rank) == IF rank = 10 THEN 9..12 ELSE IF rank \in 1..9 THEN {rank - 1} ELSE {}

RECURSIVE SlotSum(_, _)
\* the sum of the counts of the slots in S
SlotSum(cards, S) ==
    IF S = {} THEN 0
    ELSE LET i == CHOOSE j \in S : TRUE IN cards[i] + SlotSum(cards, S \ {i})

\* total_cards is the sum of the 13 slots and no slot is negative; the last
\* remove_card left the composition alone when it held no card of the rank,
\* and otherwise took one card from one slot of the rank and from total_cards
DeckIsConsistent ==
    /\ deck.total_cards = SlotSum(deck.cards, Slots)
    /\ \A i \in Slots : deck.cards[i] >= 0
    /\ call.op = "remove" =>
           IF SlotSum(call.before.cards, SlotsOf(call.rank)) = 0
           THEN deck = call.before
           ELSE /\ deck.total_cards = call.before.total_cards - 1
                /\ \E i \in SlotsOf(call.rank) :
                       deck.cards = [call.before.cards EXCEPT ![i] = @ - 1]

C13_ProbabilityOrError ==
    (call.op = "probability" /\ \A i \in Slots : deck.cards[i] >= 0) =>
        /\ deck.total_cards > 0 =>
               ret = Frac(SlotSum(deck.cards, SlotsOf(call.rank)), deck.total_cards)
        /\ deck.total_cards = 0 => call.outcome = "DivisionUndefined"

\* C14: a card outside 1..10 in the hand given to calculate_hand_value or to
\* basic_strategy_decision, or as the dealer upcard, is rejected with
\* InvalidCard.
C14_InvalidCardRejected ==
    (/\ call.op \in {"hand_value", "basic_strategy"}
     /\ \/ \E i \in DOMAIN call.cards : call.cards[i] \notin Ranks
        \/ call.op = "basic_strategy" /\ call.upcard \notin Ranks)
        => call.outcome = "InvalidCard"

StrategyCall == call.op = "basic_strategy"

\* the entry of the soft or hard table for the hand, "NONE" for a hand of
\* fewer than two cards or outside both tables
TableEntry(cards, upcard) ==
    LET hand == calculate_hand_value(cards)
    IN  IF Len(cards) < 2 THEN "NONE"
        ELSE IF hand.is_soft /\ hand.total \in 13..20
             THEN SOFT_STRATEGY[hand.total - 12][DealerIdx(upcard) + 1]
        ELSE IF hand.total \in 5..21
             THEN HARD_STRATEGY[hand.total - 4][DealerIdx(upcard) + 1]
        ELSE "NONE"

\* C17: basic_strategy_decision returns DOUBLE only for two cards, SURRENDER
\* only for two cards when surrender is allowed, SPLIT only for a two-card
\* pair when re-splitting is allowed; and when the pair table has not decided
\* and the entry of the soft or hard table is a DOUBLE or SURRENDER the hand
\* or the rules forbid, it returns HIT.
C17_StrategyIsLegal ==
    StrategyCall =>
        LET entry == TableEntry(call.cards, call.upcard)
            two_cards == Len(call.cards) = 2
        IN  /\ ret = "DOUBLE" => two_cards
            /\ ret = "SURRENDER" => (two_cards /\ call.rules.surrender_allowed)
            /\ ret = "SPLIT" => (IsPair(call.cards) /\ call.rules.resplitting_allowed)
            /\ (/\ ret # "SPLIT"
                /\ \/ entry = "DOUBLE" /\ ~two_cards
                   \/ entry = "SURRENDER"
                      /\ ~(two_cards /\ call.rules.surrender_allowed))
                   => ret = "HIT"

\* a three-card soft 18 against a 3: the table says DOUBLE, the answer is HIT
C17_ThreeCardSoft18 ==
    /\ StrategyCall
    /\ call.cards = <<1, 3, 4>>
    /\ call.upcard = 3
    /\ TableEntry(call.cards, call.upcard) = "DOUBLE"
    /\ ret = "HIT"

-----------------------------------------------------------------------------
(* AdvancedEVEngine: the dealer probabilities it computes itself.  A            *)
(* DealerProbabilities is its seven probabilities and from_cache; the engine    *)
(* is the members calculate_dealer_probabilities_advanced reads and writes.     *)

\* DealerProbabilities()
NewDealerProbabilities ==
    [bust_prob |-> Zero, blackjack_prob |-> Zero, total_17_prob |-> Zero,
     total_18_prob |-> Zero, total_19_prob |-> Zero, total_20_prob |-> Zero,
     total_21_prob |-> Zero, from_cache |-> FALSE]

\* the members the constructor sets to 0, and the empty dealer_prob_cache
NewProbabilityEngine ==
    [dealer_prob_cache |-> <<>>, cache_hits |-> 0, cache_misses |-> 0,
     recursive_calls |-> 0]

calculate_dealer_total(dealer_hand) ==
    LET total == SumCards(dealer_hand, 1)
        aces == CountAces(dealer_hand, 1)
    IN  IF aces > 0 /\ total + 10 <= 21 THEN total + 10 ELSE total

is_dealer_soft(dealer_hand) ==
    CountAces(dealer_hand, 1) > 0 /\ SumCards(dealer_hand, 1) + 10 <= 21

\* AdvancedEVEngine::dealer_must_hit
ev_dealer_must_hit(dealer_hand, rules) ==
    LET total == calculate_dealer_total(dealer_hand)
    IN  IF total < 17 THEN TRUE
        ELSE IF total > 17 THEN FALSE
        ELSE is_dealer_soft(dealer_hand) /\ rules.dealer_hits_soft_17

\* the result of a dealer who stands on dealer_total
StandingOn(dealer_hand, dealer_total) ==
    IF Len(dealer_hand) = 2 /\ dealer_total = 21
    THEN [NewDealerProbabilities EXCEPT !.blackjack_prob = One]
    ELSE IF dealer_total = 17 THEN [NewDealerProbabilities EXCEPT !.total_17_prob = One]
    ELSE IF dealer_total = 18 THEN [NewDealerProbabilities EXCEPT !.total_18_prob = One]
    ELSE IF dealer_total = 19 THEN [NewDealerProbabilities EXCEPT !.total_19_prob = One]
    ELSE IF dealer_total = 20 THEN [NewDealerProbabilities EXCEPT !.total_20_prob = One]
    ELSE IF dealer_total = 21 THEN [NewDealerProbabilities EXCEPT !.total_21_prob = One]
    ELSE NewDealerProbabilities

\* the loop's state after one more branch: "result.x += card_prob *
\* branch_result.x" for the seven probabilities, total_probability and the
\* calls of the recursion the branch made
WithBranch(loop, card_prob, branch) ==
    [result |-> [loop.result EXCEPT
        !.bust_prob = RAdd(@, RMul(card_prob, branch.result.bust_prob)),
        !.blackjack_prob = RAdd(@, RMul(card_prob, branch.result.blackjack_prob)),
        !.total_17_prob = RAdd(@, RMul(card_prob, branch.result.total_17_prob)),
        !.total_18_prob = RAdd(@, RMul(card_prob, branch.result.total_18_prob)),
        !.total_19_prob = RAdd(@, RMul(card_prob, branch.result.total_19_prob)),
        !.total_20_prob = RAdd(@, RMul(card_prob, branch.result.total_20_prob)),
        !.total_21_prob = RAdd(@, RMul(card_prob, branch.result.total_21_prob))],
     total_probability |-> RAdd(loop.total_probability, card_prob),
     recursive_calls |-> loop.recursive_calls + branch.recursive_calls]

\* the seven probabilities times normalization
TimesNormalization(result, normalization) ==
    [result EXCEPT
        !.bust_prob = RMul(@, normalization), !.blackjack_prob = RMul(@, normalization),
        !.total_17_prob = RMul(@, normalization), !.total_18_prob = RMul(@, normalization),
        !.total_19_prob = RMul(@, normalization), !.total_20_prob = RMul(@, normalization),
        !.total_21_prob = RMul(@, normalization)]

\* "if (total_probability > 0.0 && total_probability != 1.0)" and the
\* multiplication by 1 / total_probability
NormalizedDealer(loop) ==
    [result |-> IF RGt(loop.total_probability, Zero) /\ loop.total_probability # One
                THEN TimesNormalization(loop.result, RDiv(One, loop.total_probability))
                ELSE loop.result,
     recursive_calls |-> loop.recursive_calls]

RECURSIVE calculate_dealer_probabilities_recursive(_, _, _, _)
\* branch_result of every next_card_rank 1..13 with the calls of the recursion
\* it made; empty for a rank the loop skips ("if (cards_of_rank <= 0) continue")
NextCardBranches(dealer_hand, d, rules, depth) ==
    LET B(next_card_rank) ==
            IF d.cards[next_card_rank - 1] <= 0
            THEN [result |-> NewDealerProbabilities, recursive_calls |-> 0]
            ELSE calculate_dealer_probabilities_recursive(
                     Append(dealer_hand,
                            IF next_card_rank >= 10 THEN 10 ELSE next_card_rank),
                     [cards |-> [d.cards EXCEPT ![next_card_rank - 1] = @ - 1],
                      total_cards |-> d.total_cards - 1],
                     rules, depth + 1)
    IN  <<B(1), B(2), B(3), B(4), B(5), B(6), B(7), B(8), B(9), B(10), B(11), B(12),
          B(13)>>

RECURSIVE AfterNextCard(_, _, _)
\* the loop's state after the iterations 1..next_card_rank of
\* "for (int next_card_rank = 1; next_card_rank <= 13; ++next_card_rank)"
AfterNextCard(next_card_rank, d, branches) ==
    IF next_card_rank < 1 \/ next_card_rank > Len(branches)
    THEN [result |-> NewDealerProbabilities, total_probability |-> Zero,
          recursive_calls |-> 1]
    ELSE IF d.cards[next_card_rank - 1] <= 0
         THEN AfterNextCard(next_card_rank - 1, d, branches)
         ELSE WithBranch(AfterNextCard(next_card_rank - 1, d, branches),
                         Frac(d.cards[next_card_rank - 1], d.total_cards),
                         branches[next_card_rank])

\* returns the result and the number of times recursive_calls was incremented
calculate_dealer_probabilities_recursive(dealer_hand, d, rules, depth) ==
    IF calculate_dealer_total(dealer_hand) > 21
    THEN [result |-> [NewDealerProbabilities EXCEPT !.bust_prob = One],
          recursive_calls |-> 1]
    ELSE IF ~ev_dealer_must_hit(dealer_hand, rules)
         THEN [result |-> StandingOn(dealer_hand, calculate_dealer_total(dealer_hand)),
               recursive_calls |-> 1]
         ELSE NormalizedDealer(AfterNextCard(13, d,
                  NextCardBranches(dealer_hand, d, rules, depth)))

\* the precomputed probabilities of a fresh deck for a dealer who stands on
\* soft 17, in ten-thousandths, for the upcards 1..10: bust, blackjack, 17,
\* 18, 19, 20, 21
FRESH_DECK_S17 ==
    << <<1157, 3077, 1292, 1292, 1292, 1292,  598>>,
       <<3519,    0, 1387, 1315, 1315, 1315, 1149>>,
       <<3745,    0, 1292, 1244, 1244, 1244, 1231>>,
       <<4019,    0, 1198, 1173, 1173, 1173, 1264>>,
       <<4217,    0, 1221, 1102, 1102, 1102, 1256>>,
       <<4217,    0, 1667, 1058, 1058, 1058,  942>>,
       <<2618,    0, 3692, 1385,  788,  788,  729>>,
       <<2383,    0, 1292, 3594, 1292,  721,  718>>,
       <<2302,    0, 1173, 1221, 3511, 1173,  620>>,
       <<2112,  769, 1292, 1292, 1292, 3551,    0>> >>

\* the same for the ace of a dealer who hits soft 17
FRESH_DECK_H17_ACE == <<1179, 3077, 1248, 1305, 1305, 1305, 581>>

\* the DealerProbabilities of a row of the tables
FromTenThousandths(row) ==
    [bust_prob |-> Frac(row[1], 10000), blackjack_prob |-> Frac(row[2], 10000),
     total_17_prob |-> Frac(row[3], 10000), total_18_prob |-> Frac(row[4], 10000),
     total_19_prob |-> Frac(row[5], 10000), total_20_prob |-> Frac(row[6], 10000),
     total_21_prob |-> Frac(row[7], 10000), from_cache |-> FALSE]

\* an upcard outside 1..10 meets no case of the switch on the stand-on-soft-17
\* side
calculate_dealer_probabilities_fresh_deck(dealer_upcard, rules) ==
    IF rules.dealer_hits_soft_17 /\ dealer_upcard = 1
    THEN FromTenThousandths(FRESH_DECK_H17_ACE)
    ELSE IF dealer_upcard \in 1..10
         THEN FromTenThousandths(FRESH_DECK_S17[dealer_upcard])
         ELSE NewDealerProbabilities

is_fresh_deck(d) ==
    LET expected_per_rank == IntDiv(d.total_cards, 52) * 4
    IN  /\ \A rank \in 1..9 : d.cards[rank - 1] = expected_per_rank
        /\ d.cards[9] + d.cards[10] + d.cards[11] + d.cards[12] = expected_per_rank * 4

RECURSIVE ProbabilityHandKey(_, _, _)
\* "key = key * 23 + dealer_hand[i]" from card i on
ProbabilityHandKey(dealer_hand, i, key) ==
    IF i > Len(dealer_hand) THEN key
    ELSE ProbabilityHandKey(dealer_hand, i + 1, U64MulAdd(key, 23, dealer_hand[i]))

generate_probability_cache_key(dealer_hand, d, rules) ==
    U64MulAdd(ProbabilityHandKey(dealer_hand, 1, get_cache_key(d)), 2,
              IF rules.dealer_hits_soft_17 THEN 1 ELSE 0)

\* "cache_misses++" and the computation: the fresh deck's table returned as it
\* is, the recursion's result stored under cache_key and returned
ProbabilityMiss(ae, cache_key, fresh, computed) ==
    IF fresh.is_fresh
    THEN [engine |-> [ae EXCEPT !.cache_misses = @ + 1], result |-> fresh.result]
    ELSE [engine |-> [ae EXCEPT !.cache_misses = @ + 1,
                                !.recursive_calls = @ + computed.recursive_calls,
                                !.dealer_prob_cache = CachePut(@, cache_key, computed.result)],
          result |-> computed.result]

\* the lookup of cache_key: "cache_hits++; result.from_cache = true" when it
\* is found
ProbabilityLookup(ae, cache_key, dealer_upcard, d, rules) ==
    IF cache_key \in DOMAIN ae.dealer_prob_cache
    THEN [engine |-> [ae EXCEPT !.cache_hits = @ + 1],
          result |-> [ae.dealer_prob_cache[cache_key] EXCEPT !.from_cache = TRUE]]
    ELSE ProbabilityMiss(ae, cache_key,
             [is_fresh |-> is_fresh_deck(d),
              result |-> calculate_dealer_probabilities_fresh_deck(dealer_upcard, rules)],
             calculate_dealer_probabilities_recursive(<<dealer_upcard>>, d, rules, 0))

\* returns the engine after the call and the result of the call
calculate_dealer_probabilities_advanced(ae, dealer_upcard, d, rules) ==
    ProbabilityLookup(ae, generate_probability_cache_key(<<dealer_upcard>>, d, rules),
                      dealer_upcard, d, rules)

-----------------------------------------------------------------------------
(* The dealer probabilities of the EV engine asked for by a caller *)

\* the most cards left in a depleted shoe the dealer probabilities are asked on
MaxLeft == 2

\* the compositions asked about: a fresh deck and the depleted shoes that
\* still hold a card
ProbabilityDecks ==
    {FreshComposition(1)}
        \cup {convert_from_deck_state(s) : s \in {t \in ShoeFamily : t.total_cards \in 1..MaxLeft}}

ProbabilityUpcards == {1, 6, 10}

InitProbability ==
    /\ deck = FreshComposition(1)
    /\ shoe = NewDeckState(1)
    /\ engine = NewProbabilityEngine
    /\ probs = NewDealerProbabilities
    /\ call = NoCall
    /\ ret = Zero
    /\ last_ev = NewDetailedEV
    /\ simulation_depth = DefaultDepth
    /\ calls = 0
    /\ stack = <<>>
    /\ sums = <<>>

\* ev_engine.calculate_dealer_probabilities_advanced(upcard, d, rules); the
\* call keeps the engine it was made on
DealerProbabilityQuery(d, upcard, h17) ==
    /\ calls < MaxQueries
    /\ calls' = calls + 1
    /\ deck' = d
    /\ QueryReturned(calculate_dealer_probabilities_advanced(engine, upcard, d,
                                                             DefaultRules(h17)))
    /\ call' = [op |-> "dealer_probabilities", upcard |-> upcard, h17 |-> h17,
                before |-> engine]
    /\ UNCHANGED <<sums, stack, shoe, ret, last_ev, simulation_depth>>

NextProbability ==
    \E d \in ProbabilityDecks, upcard \in ProbabilityUpcards, h17 \in BOOLEAN :
        DealerProbabilityQuery(d, upcard, h17)

SpecProbability == InitProbability /\ [][NextProbability]_vars

\* the key of the query the current state was reached by
QueriedKey == generate_probability_cache_key(<<call.upcard>>, deck, DefaultRules(call.h17))

\* C15: a query of calculate_dealer_probabilities_advanced whose key is absent
\* stores a distribution under that key and counts one miss; a query whose
\* key is present returns the stored entry with from_cache set, counts one
\* hit and makes no call of the recursion; so the query repeated on the same
\* upcard, composition and rules right after is a hit, and hits + misses is
\* the number of queries -- on a fresh deck as on any other.
C15_CacheProtocol ==
    call.op = "dealer_probabilities" =>
        /\ engine.cache_hits + engine.cache_misses = calls
        /\ QueriedKey \in DOMAIN engine.dealer_prob_cache
        /\ IF QueriedKey \in DOMAIN call.before.dealer_prob_cache
           THEN /\ probs = [call.before.dealer_prob_cache[QueriedKey] EXCEPT !.from_cache = TRUE]
                /\ engine.cache_hits = call.before.cache_hits + 1
                /\ engine.cache_misses = call.before.cache_misses
                /\ engine.recursive_calls = call.before.recursive_calls
           ELSE /\ engine.dealer_prob_cache[QueriedKey] = probs
                /\ ~probs.from_cache
                /\ engine.cache_misses = call.before.cache_misses + 1
                /\ engine.cache_hits = call.before.cache_hits

-----------------------------------------------------------------------------
(* The size of the dealer cache *)

\* the cache key of the query a step makes
KeyOfQuery ==
    generate_cache_key(<<call'.upcard>>, remove_card(deck', call'.upcard),
                       DefaultRules(call'.h17))

\* a query leaves in the cache the keys it held and the key asked for; when
\* the key was not there the query is a miss that returns the distribution
\* computed afresh
QueryAddsItsKey ==
    call'.op = "exact" =>
        /\ DOMAIN engine'.cache = DOMAIN engine.cache \cup {KeyOfQuery}
        /\ get_cache_size(engine')
               = Cardinality(DOMAIN engine.cache \cup {KeyOfQuery})
        /\ KeyOfQuery \notin DOMAIN engine.cache =>
               /\ engine'.total_cache_misses = engine.total_cache_misses + 1
               /\ engine'.total_cache_hits = engine.total_cache_hits
               /\ ~probs'.from_cache
               /\ probs' = ComputeExact(call'.upcard, remove_card(deck', call'.upcard),
                                        DefaultRules(call'.h17))

\* clear_cache leaves no key, and no other call touches the cache
ClearEmptiesOthersKeep ==
    /\ call'.op = "clear" => get_cache_size(engine') = 0
    /\ call'.op \notin {"exact", "clear"} => engine'.cache = engine.cache

\* C16: get_cache_size() is 0 on a new engine and right after clear_cache(),
\* and every query adds its cache key to the keys held, so that
\* get_cache_size() is the number of distinct keys queried since the last
\* clear_cache(); the first query of a key after clear_cache() is a miss that
\* computes the distribution again.
C16_CacheSizeCountsKeys ==
    /\ get_cache_size(engine) = 0
    /\ [][QueryAddsItsKey /\ ClearEmptiesOthersKeep]_vars

\* both queries were misses and one key is held: the key was asked for,
\* cleared, and asked for again
C16_AskedAgainAfterClear ==
    /\ call.op = "exact"
    /\ engine.total_cache_misses = 2
    /\ engine.total_cache_hits = 0
    /\ get_cache_size(engine) = 1

-----------------------------------------------------------------------------
(* determine_optimal_action on the EVs a caller filled in *)

\* the values an EV field is given: -1, -1/2, 0 and 1/2
EvValues == {RNeg(One), RNeg(Frac(1, 2)), Zero, Frac(1, 2)}

\* the DetailedEVs determine_optimal_action is called on
FilledEVs ==
    {[NewDetailedEV EXCEPT !.stand_ev = s, !.hit_ev = h, !.double_ev = d,
                           !.split_ev = p, !.surrender_ev = u] :
        s \in EvValues, h \in EvValues, d \in EvValues, p \in EvValues, u \in EvValues}

InitOptimal ==
    /\ shoe = NewDeckState(1)
    /\ deck = FreshComposition(1)
    /\ engine = NewEngine
    /\ probs = NewProbs
    /\ call = NoCall
    /\ ret = Zero
    /\ last_ev = NewDetailedEV
    /\ simulation_depth = DefaultDepth
    /\ calls = 0
    /\ stack = <<>>
    /\ sums = <<>>

\* ev_engine.determine_optimal_action(ev) on a DetailedEV of the caller
DetermineOptimal(ev) ==
    /\ calls < MaxEvCalls
    /\ calls' = calls + 1
    /\ last_ev' = determine_optimal_action(ev)
    /\ call' = [op |-> "optimal", ev |-> ev]
    /\ UNCHANGED <<sums, stack, deck, shoe, engine, probs, ret, simulation_depth>>

NextOptimal == \E ev \in FilledEVs : DetermineOptimal(ev)

SpecOptimal == InitOptimal /\ [][NextOptimal]_vars

\* the actions in the order of their priority
ActionOrder == <<"STAND", "HIT", "DOUBLE", "SPLIT", "SURRENDER">>

\* the EV field of an action
EvOfAction(ev, action) ==
    CASE action = "STAND" -> ev.stand_ev
      [] action = "HIT" -> ev.hit_ev
      [] action = "DOUBLE" -> ev.double_ev
      [] action = "SPLIT" -> ev.split_ev
      [] action = "SURRENDER" -> ev.surrender_ev

\* C18: determine_optimal_action leaves the five action EVs as they were,
\* sets optimal_ev to their maximum and optimal_action to the first action,
\* in the order Stand, Hit, Double, Split, Surrender, whose EV is that
\* maximum; so optimal_ev is the EV of optimal_action and a tie goes to the
\* earlier action.
C18_FirstMaximum ==
    call.op = "optimal" =>
        /\ \A i \in 1..5 : EvOfAction(last_ev, ActionOrder[i])
                               = EvOfAction(call.ev, ActionOrder[i])
        /\ \A i \in 1..5 : ~RGt(EvOfAction(call.ev, ActionOrder[i]), last_ev.optimal_ev)
        /\ \E i \in 1..5 :
               /\ last_ev.optimal_action = ActionOrder[i]
               /\ EvOfAction(call.ev, ActionOrder[i]) = last_ev.optimal_ev
               /\ \A j \in 1..(i - 1) :
                      EvOfAction(call.ev, ActionOrder[j]) # last_ev.optimal_ev

\* hit and split tie for the maximum above stand, and hit is chosen
C18_HitSplitTie ==
    /\ call.op = "optimal"
    /\ call.ev.hit_ev = call.ev.split_ev
    /\ RGt(call.ev.hit_ev, call.ev.stand_ev)
    /\ RGt(call.ev.hit_ev, call.ev.double_ev)
    /\ RGt(call.ev.hit_ev, call.ev.surrender_ev)
    /\ last_ev.optimal_action = "HIT"

-----------------------------------------------------------------------------
(* The draw sequences of calculate_recursive *)

\* the dealer draws on total: below 17, or on a soft 17 that the rules hit
DealerDraws(hand, rules) ==
    LET ts == calculate_dealer_total_and_soft(hand)
    IN  \/ ts[1] < 17
        \/ ts[1] = 17 /\ ts[2] /\ rules.dealer_hits_soft_17

RECURSIVE WeightedMass(_, _, _)
\* the sum over the ranks 1..rank still in d of the probability of drawing
\* the rank times the mass of its continuation
WeightedMass(rank, d, masses) ==
    IF rank < 1 \/ rank > Len(masses) THEN Zero
    ELSE IF get_cards_for_rank(d, rank) <= 0 THEN WeightedMass(rank - 1, d, masses)
    ELSE RAdd(WeightedMass(rank - 1, d, masses),
              RMul(get_probability(d, rank), masses[rank]))

RECURSIVE MassEndingOn(_, _, _, _)
\* the probability of the draw sequences from hand on d that end on the total
\* `final`, 22 standing for every total above 21
MassEndingOn(hand, d, rules, final) ==
    LET total == calculate_dealer_total_and_soft(hand)[1]
        After(rank) == IF get_cards_for_rank(d, rank) <= 0 THEN Zero
                       ELSE MassEndingOn(Append(hand, rank), remove_card(d, rank),
                                         rules, final)
    IN  IF total > 21 THEN (IF final = 22 THEN One ELSE Zero)
        ELSE IF ~DealerDraws(hand, rules) THEN (IF final = total THEN One ELSE Zero)
        ELSE WeightedMass(10, d, <<After(1), After(2), After(3), After(4), After(5),
                                   After(6), After(7), After(8), After(9), After(10)>>)

RECURSIVE EndsWithoutCard(_, _, _)
\* some draw sequence from hand on d comes to a total the dealer draws on with
\* no card left to draw
EndsWithoutCard(hand, d, rules) ==
    /\ calculate_dealer_total_and_soft(hand)[1] <= 21
    /\ DealerDraws(hand, rules)
    /\ \/ \A rank \in Ranks : get_cards_for_rank(d, rank) <= 0
       \/ \E rank \in Ranks :
              /\ get_cards_for_rank(d, rank) > 0
              /\ EndsWithoutCard(Append(hand, rank), remove_card(d, rank), rules)

\* every bucket of the result holds the probability of the sequences ending
\* on its total, and prob_blackjack none
BucketsByFinalTotal ==
    /\ probs.prob_17 = MassEndingOn(call.hand, deck, DefaultRules(call.h17), 17)
    /\ probs.prob_18 = MassEndingOn(call.hand, deck, DefaultRules(call.h17), 18)
    /\ probs.prob_19 = MassEndingOn(call.hand, deck, DefaultRules(call.h17), 19)
    /\ probs.prob_20 = MassEndingOn(call.hand, deck, DefaultRules(call.h17), 20)
    /\ probs.prob_21 = MassEndingOn(call.hand, deck, DefaultRules(call.h17), 21)
    /\ probs.prob_bust = MassEndingOn(call.hand, deck, DefaultRules(call.h17), 22)
    /\ probs.prob_blackjack = Zero

\* C19: in the draw sequences calculate_recursive enumerates the dealer draws
\* exactly on a total below 17 or a soft 17 the rules hit, so every sequence
\* ends above 21 or on a standing total of 17..21 -- none ends on a total the
\* dealer draws on -- and its probability is credited to prob_bust or to the
\* bucket of exactly that total, and to no other bucket.
C19_SequencesEndBustOrStanding ==
    call.op = "recursive" =>
        /\ ~EndsWithoutCard(call.hand, deck, DefaultRules(call.h17))
        /\ BucketsByFinalTotal

-----------------------------------------------------------------------------
(* The hit EV rank by rank *)

\* v(r): -1 for a busted new_hand, its stand EV from 21 on, and otherwise the
\* larger of its hit EV one level deeper and its stand EV, on new_deck
ValueAfterCard(new_hand, dealer_upcard, new_deck, rules) ==
    IF calculate_hand_value(new_hand).is_busted THEN RNeg(One)
    ELSE IF calculate_hand_value(new_hand).total >= 21
         THEN FreshValue(calculate_stand_ev_recursive(
                  NewAdvancedEngine(simulation_depth), new_hand, dealer_upcard,
                  new_deck, rules))
    ELSE RMax(FreshValue(calculate_hit_ev_recursive(
                  NewAdvancedEngine(simulation_depth), new_hand, dealer_upcard,
                  new_deck, rules, 1)),
              FreshValue(calculate_stand_ev_recursive(
                  NewAdvancedEngine(simulation_depth), new_hand, dealer_upcard,
                  new_deck, rules)))

RECURSIVE HitValueSum(_, _, _, _, _)
\* the sum over the ranks rank..10 the deck holds of P(r) x v(r)
HitValueSum(rank, hand, dealer_upcard, deck_state, rules) ==
    IF rank > 10 THEN Zero
    ELSE IF deck_state.cards_remaining[rank] <= 0
         THEN HitValueSum(rank + 1, hand, dealer_upcard, deck_state, rules)
    ELSE RAdd(HitValueSum(rank + 1, hand, dealer_upcard, deck_state, rules),
              RMul(Frac(deck_state.cards_remaining[rank], deck_state.total_cards),
                   ValueAfterCard(Append(hand, rank), dealer_upcard,
                                  TakeCard(deck_state, rank), rules)))

\* C20: at depth 0, within the depth bound, calculate_hit_ev_recursive returns
\* -1 for a busted hand, the stand EV of a hand of 21 or more, and otherwise
\* the sum over the ranks r the deck holds of P(r) x v(r), v(r) being -1 when
\* the hand with r busts, its stand EV when it totals 21 or more, and else the
\* larger of its hit EV and its stand EV, each on the deck without that r.
C20_HitEvByRanks ==
    CompositionCall =>
        last_ev.hit_ev =
            IF calculate_hand_value(call.hand).is_busted THEN RNeg(One)
            ELSE IF calculate_hand_value(call.hand).total >= 21
                 THEN FreshValue(calculate_stand_ev_recursive(
                          NewAdvancedEngine(simulation_depth), call.hand, call.upcard,
                          shoe, call.rules))
            ELSE HitValueSum(1, call.hand, call.upcard, shoe, call.rules)

\* a hard 10 hit on a deck of MaxCards cards holding a 2 and a ten: the 2
\* leaves a 12 to hit again or stand on, and hitting the 10 is worth more than
\* standing on it
C20_HitOnTen ==
    /\ CompositionCall
    /\ call.hand = <<6, 2, 2>>
    /\ simulation_depth = DefaultDepth
    /\ shoe.total_cards = MaxCards
    /\ shoe.cards_remaining[2] > 0
    /\ shoe.cards_remaining[10] > 0
    /\ RGt(last_ev.hit_ev, last_ev.stand_ev)

-----------------------------------------------------------------------------
(* The recursions call by call: calculate_recursive and                        *)
(* calculate_hit_ev_recursive run one step at a time.  `stack` holds, for each *)
(* call in progress, its arguments and the rank its loop is at; `sums` holds   *)
(* the accumulators of its loop.                                               *)

\* simulation_depth of the engines whose recursion is followed
RunDepths == {0, 1, DefaultDepth}

InitRun ==
    /\ shoe \in ShoeFamily
    /\ deck = convert_from_deck_state(shoe)
    /\ engine = NewEngine
    /\ probs = NewProbs
    /\ call = NoCall
    /\ ret = Zero
    /\ last_ev = NewDetailedEV
    /\ simulation_depth \in RunDepths
    /\ calls = 0
    /\ stack = <<>>
    /\ sums = <<>>

\* the innermost call
Top == stack[Len(stack)]

\* the call that made the innermost one
Caller == stack[Len(stack) - 1]

\* a call at its first statement
Frame(fn, hand, d, depth) ==
    [fn |-> fn, hand |-> hand, deck |-> d, depth |-> depth, rank |-> 1]

\* the innermost call returns: its caller goes on with the next rank
Popped ==
    IF Len(stack) = 1 THEN <<>>
    ELSE Append(SubSeq(stack, 1, Len(stack) - 2), [Caller EXCEPT !.rank = @ + 1])

\* the loop of the innermost call goes on with the next rank
Stepped == [stack EXCEPT ![Len(stack)].rank = @ + 1]

\* the innermost call makes a call on its hand with the card of its rank
Pushed(fn, d) == Append(stack, Frame(fn, Append(Top.hand, Top.rank), d, Top.depth + 1))

\* "ExactDealerProbs result; result.recursive_calls = 1;" and
\* "double total_prob_check = 0.0"
DealerSums == [result |-> [NewProbs EXCEPT !.recursive_calls = 1], check |-> Zero]

\* "double total_ev = 0.0; double total_probability = 0.0"
HitSums == [total_ev |-> Zero, total_probability |-> Zero]

\* the accumulators with those of the innermost call replaced
WithSums(a) == [sums EXCEPT ![Len(sums)] = a]

\* engine.calculate_recursive(hand, deck, rules, 0) is entered
BeginDealerStep(hand, h17) ==
    /\ calls = 0
    /\ calls' = 1
    /\ call' = [op |-> "recursive", hand |-> hand, h17 |-> h17]
    /\ stack' = <<Frame("calculate_recursive", hand, deck, 0)>>

BeginDealer(hand, h17) ==
    /\ BeginDealerStep(hand, h17)
    /\ sums' = <<DealerSums>>
    /\ UNCHANGED <<deck, shoe, engine, probs, ret, last_ev, simulation_depth>>

\* the dealer total and softness of the hand of the innermost call
TopTotal == calculate_dealer_total_and_soft(Top.hand)

\* "return result" of calculate_recursive: to the caller of the outermost
\* call, or into the loop of the calling frame ("result.prob_17 += card_prob *
\* branch_result.prob_17; ...")
DealerReturns(value) ==
    IF Len(stack) = 1
    THEN /\ probs' = value
         /\ sums' = <<>>
    ELSE /\ probs' = probs
         /\ sums' = Append(SubSeq(sums, 1, Len(sums) - 2),
                [sums[Len(sums) - 1] EXCEPT
                    !.result = Accumulate(@, get_probability(Caller.deck, Caller.rank),
                                          value)])

\* the innermost call is one of calculate_recursive on a hand that has busted
\* or must stand
AtDealerTerminal ==
    /\ stack # <<>>
    /\ Top.fn = "calculate_recursive"
    /\ \/ TopTotal[1] > 21
       \/ ~dealer_must_hit(TopTotal[1], TopTotal[2], DefaultRules(call.h17))

\* the terminal cases of calculate_recursive
DealerTerminal ==
    /\ AtDealerTerminal
    /\ stack' = Popped
    /\ DealerReturns(IF TopTotal[1] > 21
                     THEN BustResult(sums[Len(sums)].result)
                     ELSE StandResult(sums[Len(sums)].result, TopTotal[1]))
    /\ UNCHANGED <<deck, shoe, engine, call, ret, last_ev, simulation_depth, calls>>

\* the innermost call is one of calculate_recursive in its loop
DealerInLoop ==
    /\ stack # <<>>
    /\ Top.fn = "calculate_recursive"
    /\ TopTotal[1] <= 21
    /\ dealer_must_hit(TopTotal[1], TopTotal[2], DefaultRules(call.h17))

AtDealerSkip ==
    /\ DealerInLoop
    /\ Top.rank <= 10
    /\ get_cards_for_rank(Top.deck, Top.rank) <= 0

\* "if (cards_available <= 0) continue"
DealerSkip ==
    /\ AtDealerSkip
    /\ stack' = Stepped
    /\ UNCHANGED <<deck, shoe, engine, probs, call, ret, last_ev, simulation_depth,
                   calls, sums>>

AtDealerDraw ==
    /\ DealerInLoop
    /\ Top.rank <= 10
    /\ get_cards_for_rank(Top.deck, Top.rank) > 0

\* "total_prob_check += card_prob" and the recursive call on the hand with the
\* card and the deck without it
DealerDraw ==
    /\ AtDealerDraw
    /\ stack' = Pushed("calculate_recursive", remove_card(Top.deck, Top.rank))
    /\ sums' = Append(
           WithSums([sums[Len(sums)] EXCEPT
                        !.check = RAdd(@, get_probability(Top.deck, Top.rank))]),
           DealerSums)
    /\ UNCHANGED <<deck, shoe, engine, probs, call, ret, last_ev, simulation_depth,
                   calls>>

AtDealerLoopEnd ==
    /\ DealerInLoop
    /\ Top.rank > 10

\* the loop is over: the normalisation and "return result"
DealerLoopEnd ==
    /\ AtDealerLoopEnd
    /\ stack' = Popped
    /\ DealerReturns(Normalize(sums[Len(sums)].result, sums[Len(sums)].check))
    /\ UNCHANGED <<deck, shoe, engine, call, ret, last_ev, simulation_depth, calls>>

\* ev_engine.calculate_hit_ev_recursive(hand, upcard, shoe, rules, 0) is entered
BeginHitStep(hand, upcard) ==
    /\ calls = 0
    /\ calls' = 1
    /\ call' = [op |-> "hit", hand |-> hand, upcard |-> upcard,
                rules |-> DefaultRules(TRUE)]
    /\ stack' = <<Frame("calculate_hit_ev_recursive", hand, shoe, 0)>>

BeginHit(hand, upcard) ==
    /\ BeginHitStep(hand, upcard)
    /\ sums' = <<HitSums>>
    /\ UNCHANGED <<deck, shoe, engine, probs, ret, last_ev, simulation_depth>>

\* the accumulators a after the branch of the card of frame came to branch_ev:
\* "total_ev += card_prob * branch_ev"
WithBranchEv(a, frame, branch_ev) ==
    [a EXCEPT !.total_ev = RAdd(@, RMul(CardProb(frame.deck, frame.rank), branch_ev))]

\* the accumulators a with "total_probability += card_prob" for the card of
\* the innermost call
CardCounted(a) ==
    [a EXCEPT !.total_probability = RAdd(@, CardProb(Top.deck, Top.rank))]

\* "return" of calculate_hit_ev_recursive with a value computed on the dealer
\* engine as it is: to the caller of the outermost call, or into the loop of
\* the calling frame, where stand is the stand EV of the same hand and
\* "branch_ev = std::max(hit_again_ev, stand_ev)"
HitReturns(value, stand) ==
    IF Len(stack) = 1
    THEN /\ ret' = value
         /\ sums' = <<>>
         /\ engine' = engine
    ELSE /\ ret' = ret
         /\ engine' = stand.ae.recursive_dealer_engine
         /\ sums' = Append(SubSeq(sums, 1, Len(sums) - 2),
                WithBranchEv(sums[Len(sums) - 1], Caller, RMax(value, stand.value)))

\* the stand EV the calling frame computes for the hand of the innermost call
StandOfTop ==
    calculate_stand_ev_recursive(ThisEngine, Top.hand, call.upcard, Top.deck,
                                 call.rules)

AtHitFallback ==
    /\ stack # <<>>
    /\ Top.fn = "calculate_hit_ev_recursive"
    /\ Top.depth > simulation_depth

\* "if (depth > simulation_depth) return calculate_simple_hit_ev(...)"
HitFallback ==
    /\ AtHitFallback
    /\ stack' = Popped
    /\ HitReturns(calculate_simple_hit_ev(Top.hand, call.upcard, Top.deck, call.rules),
                  StandOfTop)
    /\ UNCHANGED <<deck, shoe, probs, call, last_ev, simulation_depth, calls>>

\* the innermost call is one of calculate_hit_ev_recursive within the depth
\* bound
HitWithinDepth ==
    /\ stack # <<>>
    /\ Top.fn = "calculate_hit_ev_recursive"
    /\ Top.depth <= simulation_depth

AtHitBusted ==
    /\ HitWithinDepth
    /\ calculate_hand_value(Top.hand).is_busted

\* "if (hand_data.is_busted) return -1.0": only the outermost call is made on
\* a busted hand
HitBusted ==
    /\ AtHitBusted
    /\ stack' = Popped
    /\ HitReturns(RNeg(One), StandOfTop)
    /\ UNCHANGED <<deck, shoe, probs, call, last_ev, simulation_depth, calls>>

\* the engine is left as the stand EV r left it, and r is returned to the
\* caller of the outermost call
StandReturned(r) ==
    /\ engine' = r.ae.recursive_dealer_engine
    /\ ret' = r.value
    /\ sums' = <<>>

AtHitStands ==
    /\ HitWithinDepth
    /\ ~calculate_hand_value(Top.hand).is_busted
    /\ calculate_hand_value(Top.hand).total >= 21

\* "if (hand_data.total >= 21) return calculate_stand_ev_recursive(...)": only
\* the outermost call is made on such a hand
HitStands ==
    /\ AtHitStands
    /\ stack' = Popped
    /\ StandReturned(StandOfTop)
    /\ UNCHANGED <<deck, shoe, probs, call, last_ev, simulation_depth, calls>>

\* the innermost call is one of calculate_hit_ev_recursive in its loop
HitInLoop ==
    /\ HitWithinDepth
    /\ ~calculate_hand_value(Top.hand).is_busted
    /\ calculate_hand_value(Top.hand).total < 21

AtHitSkip ==
    /\ HitInLoop
    /\ Top.rank <= 10
    /\ Top.deck.cards_remaining[Top.rank] <= 0

\* "if (it->second <= 0) continue"
HitSkip ==
    /\ AtHitSkip
    /\ stack' = Stepped
    /\ UNCHANGED <<deck, shoe, engine, probs, call, ret, last_ev, simulation_depth,
                   calls, sums>>

\* the loop of the innermost call is at a rank the deck holds
HitDraws ==
    /\ HitInLoop
    /\ Top.rank <= 10
    /\ Top.deck.cards_remaining[Top.rank] > 0

AtHitDrawBust ==
    /\ HitDraws
    /\ calculate_hand_value(Append(Top.hand, Top.rank)).is_busted

\* the card busts the hand: "branch_ev = -1.0"
HitDrawBust ==
    /\ AtHitDrawBust
    /\ stack' = Stepped
    /\ sums' = WithSums(WithBranchEv(CardCounted(sums[Len(sums)]), Top, RNeg(One)))
    /\ UNCHANGED <<deck, shoe, engine, probs, call, ret, last_ev, simulation_depth,
                   calls>>

\* the engine is left as the stand EV r left it, and r is the branch_ev of the
\* current rank
StandIsBranch(r) ==
    /\ engine' = r.ae.recursive_dealer_engine
    /\ sums' = WithSums(WithBranchEv(CardCounted(sums[Len(sums)]), Top, r.value))

AtHitDrawStand ==
    /\ HitDraws
    /\ ~calculate_hand_value(Append(Top.hand, Top.rank)).is_busted
    /\ calculate_hand_value(Append(Top.hand, Top.rank)).total >= 21

\* the card takes the hand to 21: "branch_ev = calculate_stand_ev_recursive(...)"
HitDrawStand ==
    /\ AtHitDrawStand
    /\ stack' = Stepped
    /\ StandIsBranch(calculate_stand_ev_recursive(ThisEngine, Append(Top.hand, Top.rank),
                         call.upcard, TakeCard(Top.deck, Top.rank), call.rules))
    /\ UNCHANGED <<deck, shoe, probs, call, ret, last_ev, simulation_depth, calls>>

AtHitDrawDeeper ==
    /\ HitDraws
    /\ calculate_hand_value(Append(Top.hand, Top.rank)).total < 21

\* the card leaves a hand below 21: the recursive call at depth + 1
HitDrawDeeper ==
    /\ AtHitDrawDeeper
    /\ stack' = Pushed("calculate_hit_ev_recursive", TakeCard(Top.deck, Top.rank))
    /\ sums' = Append(WithSums(CardCounted(sums[Len(sums)])), HitSums)
    /\ UNCHANGED <<deck, shoe, engine, probs, call, ret, last_ev, simulation_depth,
                   calls>>

AtHitLoopEnd ==
    /\ HitInLoop
    /\ Top.rank > 10

\* the loop is over: the normalisation and "return total_ev"
HitLoopEnd ==
    /\ AtHitLoopEnd
    /\ stack' = Popped
    /\ HitReturns(NormalizeEv(sums[Len(sums)].total_ev,
                              sums[Len(sums)].total_probability), StandOfTop)
    /\ UNCHANGED <<deck, shoe, probs, call, last_ev, simulation_depth, calls>>

\* the upcards calculate_exact_probabilities is asked for
RunUpcards == {1, 6, 10}

\* engine.calculate_exact_probabilities(upcard, deck, rules) as one step: the
\* steps of its recursion are those of calculate_recursive
ExactQueryStep(upcard, h17) ==
    /\ calls = 0
    /\ calls' = 1
    /\ call' = [op |-> "exact", upcard |-> upcard, h17 |-> h17]
    /\ stack' = <<>>

ExactQuery(upcard, h17) ==
    /\ ExactQueryStep(upcard, h17)
    /\ QueryReturned(calculate_exact_probabilities(engine, upcard, deck,
                                                   DefaultRules(h17)))
    /\ UNCHANGED <<deck, shoe, ret, last_ev, simulation_depth, sums>>

NextRun ==
    \/ \E upcard \in RunUpcards, h17 \in BOOLEAN : ExactQuery(upcard, h17)
    \/ \E hand \in DealerHands, h17 \in BOOLEAN : BeginDealer(hand, h17)
    \/ DealerTerminal
    \/ DealerSkip
    \/ DealerDraw
    \/ DealerLoopEnd
    \/ \E hand \in EVHands, upcard \in EVUpcards : BeginHit(hand, upcard)
    \/ HitFallback
    \/ HitBusted
    \/ HitStands
    \/ HitSkip
    \/ HitDrawBust
    \/ HitDrawStand
    \/ HitDrawDeeper
    \/ HitLoopEnd

SpecRun == InitRun /\ [][NextRun]_vars

\* the steps of NextRun as far as the calls in progress go: which call is
\* entered, which returns and which loop moves on
RunStep ==
    \/ \E upcard \in RunUpcards, h17 \in BOOLEAN : ExactQueryStep(upcard, h17)
    \/ \E hand \in DealerHands, h17 \in BOOLEAN : BeginDealerStep(hand, h17)
    \/ \E hand \in EVHands, upcard \in EVUpcards : BeginHitStep(hand, upcard)
    \/ /\ \/ AtDealerTerminal \/ AtDealerLoopEnd
          \/ AtHitFallback \/ AtHitBusted \/ AtHitStands \/ AtHitLoopEnd
       /\ stack' = Popped
       /\ UNCHANGED <<call, calls>>
    \/ /\ AtDealerSkip \/ AtHitSkip \/ AtHitDrawBust \/ AtHitDrawStand
       /\ stack' = Stepped
       /\ UNCHANGED <<call, calls>>
    \/ /\ AtDealerDraw
       /\ stack' = Pushed("calculate_recursive", remove_card(Top.deck, Top.rank))
       /\ UNCHANGED <<call, calls>>
    \/ /\ AtHitDrawDeeper
       /\ stack' = Pushed("calculate_hit_ev_recursive", TakeCard(Top.deck, Top.rank))
       /\ UNCHANGED <<call, calls>>

\* a call that can be entered is entered, and a call in progress takes its
\* next step: the program runs each call to its return
SpecRunFair == SpecRun /\ WF_<<stack, call, calls>>(RunStep)

\* each call in progress was made by the one below it, on its hand with the
\* card of its current rank and one level deeper
FramesNested ==
    /\ Len(sums) = Len(stack)
    /\ \A i \in 2..Len(stack) :
        /\ stack[i].fn = stack[i - 1].fn
        /\ stack[i].hand = Append(stack[i - 1].hand, stack[i - 1].rank)
        /\ Len(stack[i].hand) = Len(stack[i - 1].hand) + 1
        /\ stack[i].depth = stack[i - 1].depth + 1

\* a dealer hand that is drawn to is below 17 or a soft 17
DealerDrawsBelow18 ==
    \A i \in 1..(Len(stack) - 1) :
        stack[i].fn = "calculate_recursive" =>
            \/ calculate_dealer_total_and_soft(stack[i].hand)[1] < 17
            \/ /\ calculate_dealer_total_and_soft(stack[i].hand)[1] = 17
               /\ calculate_dealer_total_and_soft(stack[i].hand)[2]

\* the calls of calculate_hit_ev_recursive in progress are at depths 0, 1, ...
\* and none is deeper than simulation_depth + 1; no call is made on more
\* cards than the shoe holds
NestingBounded ==
    /\ Len(stack) <= shoe.total_cards + 1
    /\ \A i \in 1..Len(stack) :
           stack[i].fn = "calculate_hit_ev_recursive" =>
               /\ stack[i].depth = i - 1
               /\ stack[i].depth <= simulation_depth + 1

\* a call deeper than simulation_depth returns calculate_simple_hit_ev to the
\* frame that made it
FallbackBeyondDepth ==
    AtHitFallback =>
        /\ stack' = Popped
        /\ sums' = Append(SubSeq(sums, 1, Len(sums) - 2),
               WithBranchEv(sums[Len(sums) - 1], Caller,
                   RMax(calculate_simple_hit_ev(Top.hand, call.upcard, Top.deck,
                                                call.rules),
                        StandOfTop.value)))

\* the outermost call has returned what the recursion computes as a whole
RunAgrees ==
    (calls = 1 /\ stack = <<>>) =>
        IF call.op = "exact"
        THEN probs = calculate_exact_probabilities(NewEngine, call.upcard, deck,
                                                   DefaultRules(call.h17)).result
        ELSE IF call.op = "recursive"
        THEN probs = calculate_recursive(call.hand, deck, DefaultRules(call.h17), 0)
        ELSE ret = calculate_hit_ev_recursive(NewAdvancedEngine(simulation_depth),
                       call.hand, call.upcard, shoe, call.rules, 0).value

\* C21: every recursion terminates on every finite deck.  While
\* calculate_recursive runs, each nested call holds one card more than its
\* caller and only hands below 17 or soft 17 are drawn to; the calls of
\* calculate_hit_ev_recursive never nest deeper than simulation_depth + 1, a
\* call beyond simulation_depth returns the non-recursive fallback; and every
\* call that was entered returns, with the value of the recursion.
C21_RecursionsTerminate ==
    /\ [](FramesNested /\ DealerDrawsBelow18 /\ NestingBounded /\ RunAgrees)
    /\ [][FallbackBeyondDepth]_vars
    /\ (stack # <<>>) ~> (stack = <<>>)

\* a call of calculate_hit_ev_recursive at depth simulation_depth + 1 is in
\* progress, under simulation_depth + 1 other calls
C21_AtFallbackDepth ==
    /\ Len(stack) = simulation_depth + 2
    /\ Top.fn = "calculate_hit_ev_recursive"
    /\ Top.depth = simulation_depth + 1

\* the composition of every nested call of calculate_recursive is that of
\* its caller less one card of the rank the caller's loop is at
BranchOnOwnCopy ==
    \A i \in 2..Len(stack) :
        stack[i].fn = "calculate_recursive" =>
            /\ stack[i].deck.total_cards = stack[i - 1].deck.total_cards - 1
            /\ \A q \in Ranks :
                   get_cards_for_rank(stack[i].deck, q) =
                       get_cards_for_rank(stack[i - 1].deck, q)
                           - (IF q = stack[i - 1].rank THEN 1 ELSE 0)

\* a call in progress keeps its hand and its composition whatever the calls
\* it makes do, and the outermost call works on the caller's composition
NodeKeepsComposition ==
    /\ \A i \in 1..Len(stack) :
           i <= Len(stack') => /\ stack'[i].deck = stack[i].deck
                               /\ stack'[i].hand = stack[i].hand
    /\ (stack' # <<>> /\ stack'[1].fn = "calculate_recursive") => stack'[1].deck = deck

\* calculate_exact_probabilities and the recursion leave the caller's
\* composition as it was, and a query changes nothing of the engine but the
\* cache and the hit and miss counters
CallerKeepsDeck ==
    /\ deck' = deck
    /\ call'.op = "exact" =>
           /\ engine'.total_cache_hits + engine'.total_cache_misses =
                  engine.total_cache_hits + engine.total_cache_misses + 1
           /\ DOMAIN engine'.cache \in
                  {DOMAIN engine.cache,
                   DOMAIN engine.cache \cup
                       {generate_cache_key(<<call'.upcard>>,
                                           remove_card(deck, call'.upcard),
                                           DefaultRules(call'.h17))}}

\* C26: branch isolation.  At every node of calculate_recursive the branch of
\* the next card r works on the node's composition less one card of rank r,
\* whichever sibling branches were evaluated before; the node's composition
\* stays as it was; and calculate_exact_probabilities leaves the caller's
\* DeckComposition unchanged, writing only the cache and the counters.
C26_BranchIsolation ==
    /\ []BranchOnOwnCopy
    /\ [][NodeKeepsComposition /\ CallerKeepsDeck]_vars

\* a branch is being evaluated after a sibling branch of a lower rank
C26_AfterSibling ==
    /\ Len(stack) >= 2
    /\ Top.fn = "calculate_recursive"
    /\ \E q \in 1..(Caller.rank - 1) : get_cards_for_rank(Caller.deck, q) > 0

-----------------------------------------------------------------------------
(* The split recursion call by call: calculate_split_ev_advanced and           *)
(* calculate_split_hand_ev call each other; calculate_optimal_play_ev is one   *)
(* step.  A frame of calculate_split_ev_advanced holds the pair in `hand` and  *)
(* its loop variable split_hand + 1 in `rank`; a frame of                      *)
(* calculate_split_hand_ev holds <<pair_rank>> in `hand` and second_card_rank  *)
(* in `rank`.                                                                  *)

\* the rules a split is asked under: with and without resplitting and double
\* after split, for at most one, two and three hands
SplitRules ==
    {[DefaultRules(TRUE) EXCEPT !.resplitting_allowed = r, !.double_after_split = d,
                                !.max_split_hands = m] :
        r \in BOOLEAN, d \in BOOLEAN, m \in {1, 2, 3}}

\* the hands a split is asked for: three pairs and a hand that is no pair
SplitHands == {<<2, 2>>, <<6, 6>>, <<10, 10>>, <<10, 6>>}

\* an ace and three tens
AceAndTens == DeckStateOf([r \in Ranks |-> IF r = 10 THEN 3 ELSE IF r = 1 THEN 1 ELSE 0])

\* the shoes a split is asked on: those of ShoeFamily with MaxCards cards, and
\* an ace with three tens
SplitShoes == {s \in ShoeFamily : s.total_cards = MaxCards} \cup {AceAndTens}

InitSplit ==
    /\ shoe \in SplitShoes
    /\ deck = convert_from_deck_state(shoe)
    /\ engine = NewEngine
    /\ probs = NewProbs
    /\ call = NoCall
    /\ ret = Zero
    /\ last_ev = NewDetailedEV
    /\ simulation_depth = DefaultDepth
    /\ calls = 0
    /\ stack = <<>>
    /\ sums = <<>>

\* a call of the split recursion at its first statement
SplitFrame(fn, hand, d, splits_remaining) ==
    [fn |-> fn, hand |-> hand, deck |-> d, splits_remaining |-> splits_remaining,
     rank |-> 1]

\* "double total_ev = 0.0" of calculate_split_ev_advanced
SplitSums == [total_ev |-> Zero]

\* ev_engine.calculate_split_ev_advanced(pair_hand, dealer_upcard, shoe, rules,
\*                                       rules.max_split_hands - 1) is entered
BeginSplit(pair_hand, dealer_upcard, rules) ==
    /\ calls = 0
    /\ calls' = 1
    /\ call' = [op |-> "split", hand |-> pair_hand, upcard |-> dealer_upcard,
                rules |-> rules]
    /\ stack' = <<SplitFrame("calculate_split_ev_advanced", pair_hand, shoe,
                             rules.max_split_hands - 1)>>
    /\ sums' = <<SplitSums>>
    /\ UNCHANGED <<deck, shoe, engine, probs, ret, last_ev, simulation_depth>>

\* the accumulators of the calling calculate_split_hand_ev after the re-split
\* came to resplit_ev and play is the optimal play of the same hand:
\* "hand_ev = std::max(resplit_ev, play_ev); total_ev += card_prob * hand_ev"
ResplitOrPlay(resplit_ev, play) ==
    /\ engine' = play.ae.recursive_dealer_engine
    /\ sums' = Append(SubSeq(sums, 1, Len(sums) - 2),
           WithBranchEv(sums[Len(sums) - 1], Caller, RMax(resplit_ev, play.value)))

\* "return" of calculate_split_ev_advanced with the value r computed on the
\* engine r.ae: to the caller of the outermost call, or into the loop of the
\* calling calculate_split_hand_ev
SplitReturns(r) ==
    /\ stack' = Popped
    /\ IF Len(stack) = 1
       THEN /\ ret' = r.value
            /\ engine' = r.ae.recursive_dealer_engine
            /\ sums' = <<>>
       ELSE /\ ret' = ret
            /\ ResplitOrPlay(r.value,
                   calculate_optimal_play_ev(r.ae, Top.hand, call.upcard, Top.deck,
                                             call.rules))

\* the innermost call is one of calculate_split_ev_advanced
InSplit == stack # <<>> /\ Top.fn = "calculate_split_ev_advanced"

\* "if (pair_hand.size() != 2 || pair_hand[0] != pair_hand[1]) return -2.0"
SplitInvalid ==
    /\ InSplit
    /\ Len(Top.hand) # 2 \/ Top.hand[1] # Top.hand[2]
    /\ SplitReturns([ae |-> ThisEngine, value |-> Unavailable])
    /\ UNCHANGED <<deck, shoe, probs, call, last_ev, simulation_depth, calls>>

\* the innermost call is one of calculate_split_ev_advanced on a pair
SplitOfPair == InSplit /\ Len(Top.hand) = 2 /\ Top.hand[1] = Top.hand[2]

\* "if (splits_remaining <= 0) return calculate_optimal_play_ev(pair_hand, ...)"
SplitPlays ==
    /\ SplitOfPair
    /\ Top.splits_remaining <= 0
    /\ SplitReturns(calculate_optimal_play_ev(ThisEngine, Top.hand, call.upcard,
                                              Top.deck, call.rules))
    /\ UNCHANGED <<deck, shoe, probs, call, last_ev, simulation_depth, calls>>

\* "hand_ev = calculate_split_hand_ev(pair_rank, dealer_upcard, deck, rules,
\*                                    splits_remaining)" is entered
SplitHandCall ==
    /\ SplitOfPair
    /\ Top.splits_remaining > 0
    /\ Top.rank <= 2
    /\ stack' = Append(stack, SplitFrame("calculate_split_hand_ev", <<Top.hand[1]>>,
                                         Top.deck, Top.splits_remaining))
    /\ sums' = Append(sums, HitSums)
    /\ UNCHANGED <<deck, shoe, engine, probs, call, ret, last_ev, simulation_depth,
                   calls>>

\* "return total_ev / 2.0"
SplitAverage ==
    /\ SplitOfPair
    /\ Top.splits_remaining > 0
    /\ Top.rank > 2
    /\ SplitReturns([ae |-> ThisEngine,
                     value |-> RDiv(sums[Len(sums)].total_ev, Frac(2, 1))])
    /\ UNCHANGED <<deck, shoe, probs, call, last_ev, simulation_depth, calls>>

\* the innermost call is one of calculate_split_hand_ev
InSplitHand == stack # <<>> /\ Top.fn = "calculate_split_hand_ev"

\* "if (it->second <= 0) continue"
SplitHandSkip ==
    /\ InSplitHand
    /\ Top.rank <= 10
    /\ Top.deck.cards_remaining[Top.rank] <= 0
    /\ stack' = Stepped
    /\ UNCHANGED <<deck, shoe, engine, probs, call, ret, last_ev, simulation_depth,
                   calls, sums>>

\* the loop of the innermost calculate_split_hand_ev is at a rank the deck holds
SplitHandDraws ==
    /\ InSplitHand
    /\ Top.rank <= 10
    /\ Top.deck.cards_remaining[Top.rank] > 0

\* a re-split whatever rules.resplitting_allowed says
ResplitWhenPaired ==
    /\ Top.rank = Top.hand[1]
    /\ Top.splits_remaining > 0

\* "if (second_card_value == pair_rank && splits_remaining > 0 &&
\*      rules.resplitting_allowed)"
CanResplit ==
    /\ Top.rank = Top.hand[1]
    /\ Top.splits_remaining > 0
    /\ call.rules.resplitting_allowed

\* the engine is left as the optimal play r left it, and r is the hand_ev of
\* the current rank
PlayIsBranch(r) ==
    /\ engine' = r.ae.recursive_dealer_engine
    /\ sums' = WithSums(WithBranchEv(CardCounted(sums[Len(sums)]), Top, r.value))

\* "hand_ev = calculate_optimal_play_ev(split_hand, dealer_upcard, new_deck, rules)"
SplitHandPlay ==
    /\ SplitHandDraws
    /\ ~CanResplit
    /\ stack' = Stepped
    /\ PlayIsBranch(calculate_optimal_play_ev(ThisEngine, <<Top.hand[1], Top.rank>>,
                        call.upcard, TakeCard(Top.deck, Top.rank), call.rules))
    /\ UNCHANGED <<deck, shoe, probs, call, ret, last_ev, simulation_depth, calls>>

\* "resplit_ev = calculate_split_ev_advanced(split_hand, dealer_upcard, new_deck,
\*                                           rules, splits_remaining - 1)" is entered
SplitHandResplit ==
    /\ SplitHandDraws
    /\ CanResplit
    /\ stack' = Append(stack, SplitFrame("calculate_split_ev_advanced",
                                         <<Top.hand[1], Top.rank>>,
                                         TakeCard(Top.deck, Top.rank),
                                         Top.splits_remaining - 1))
    /\ sums' = Append(WithSums(CardCounted(sums[Len(sums)])), SplitSums)
    /\ UNCHANGED <<deck, shoe, engine, probs, call, ret, last_ev, simulation_depth,
                   calls>>

\* the loop is over: the normalisation, "return total_ev" and "total_ev +=
\* hand_ev" in the calling calculate_split_ev_advanced
SplitHandLoopEnd ==
    /\ InSplitHand
    /\ Top.rank > 10
    /\ stack' = Popped
    /\ sums' = Append(SubSeq(sums, 1, Len(sums) - 2),
           [sums[Len(sums) - 1] EXCEPT
               !.total_ev = RAdd(@, NormalizeEv(sums[Len(sums)].total_ev,
                                                sums[Len(sums)].total_probability))])
    /\ UNCHANGED <<deck, shoe, engine, probs, call, ret, last_ev, simulation_depth,
                   calls>>

NextSplit ==
    \/ \E h \in SplitHands, u \in EVUpcards, rules \in SplitRules : BeginSplit(h, u, rules)
    \/ SplitInvalid
    \/ SplitPlays
    \/ SplitHandCall
    \/ SplitAverage
    \/ SplitHandSkip
    \/ SplitHandPlay
    \/ SplitHandResplit
    \/ SplitHandLoopEnd

SpecSplit == InitSplit /\ [][NextSplit]_vars

\* the nested calls of calculate_split_ev_advanced in progress, the outermost
\* one not counted
NestedSplits ==
    Cardinality({i \in 2..Len(stack) : stack[i].fn = "calculate_split_ev_advanced"})

\* every nested split in progress was entered from a calculate_split_hand_ev
\* that dealt a card of the pair rank with splits left and resplitting allowed,
\* and has one split less left than it; a calculate_split_hand_ev has as many
\* splits left as the split that entered it
ResplitsNested ==
    \A i \in 2..Len(stack) :
        IF stack[i].fn = "calculate_split_ev_advanced"
        THEN /\ stack[i - 1].fn = "calculate_split_hand_ev"
             /\ stack[i - 1].rank = stack[i - 1].hand[1]
             /\ stack[i].hand = <<stack[i - 1].hand[1], stack[i - 1].rank>>
             /\ stack[i].deck = TakeCard(stack[i - 1].deck, stack[i - 1].rank)
             /\ call.rules.resplitting_allowed
             /\ stack[i - 1].splits_remaining > 0
             /\ stack[i].splits_remaining = stack[i - 1].splits_remaining - 1
        ELSE /\ stack[i - 1].fn = "calculate_split_ev_advanced"
             /\ stack[i].hand = <<stack[i - 1].hand[1]>>
             /\ stack[i].deck = stack[i - 1].deck
             /\ stack[i].splits_remaining = stack[i - 1].splits_remaining

\* the nested splits stay within the splits the outermost call was given
ResplitsBounded ==
    stack # <<>> =>
        /\ stack[1].splits_remaining = call.rules.max_split_hands - 1
        /\ NestedSplits <= stack[1].splits_remaining
        /\ \A i \in 1..Len(stack) :
               stack[i].splits_remaining = stack[1].splits_remaining -
                   Cardinality({j \in 2..i : stack[j].fn = "calculate_split_ev_advanced"})
        /\ ~call.rules.resplitting_allowed => NestedSplits = 0

\* what the innermost calculate_split_ev_advanced is about to return
SplitValue ==
    IF Top.splits_remaining <= 0
    THEN calculate_optimal_play_ev(ThisEngine, Top.hand, call.upcard, Top.deck,
                                   call.rules)
    ELSE [ae |-> ThisEngine, value |-> RDiv(sums[Len(sums)].total_ev, Frac(2, 1))]

\* total_ev of the calling calculate_split_hand_ev once the hand of the
\* innermost call counted as the larger of resplit and the value of play
HandCountedAs(resplit, play) ==
    RAdd(sums[Len(sums) - 1].total_ev,
         RMul(CardProb(Caller.deck, Caller.rank), RMax(resplit.value, play.value)))

\* a nested split that returns counts as the larger of its value and the
\* optimal play of the same hand
ResplitCountsAsMax ==
    (stack # <<>> /\ Len(stack') < Len(stack) /\ Len(stack) > 1
        /\ Top.fn = "calculate_split_ev_advanced")
    => sums'[Len(sums')].total_ev =
           HandCountedAs(SplitValue,
               calculate_optimal_play_ev(SplitValue.ae, Top.hand, call.upcard, Top.deck,
                                         call.rules))

\* a dealt card that is not of the pair rank, or is dealt with no split left
\* or with resplitting disabled, counts as its optimal play and enters no call
PlayedWithoutResplit ==
    (/\ stack # <<>>
     /\ Top.fn = "calculate_split_hand_ev"
     /\ Top.rank <= 10
     /\ Top.deck.cards_remaining[Top.rank] > 0
     /\ \/ Top.rank # Top.hand[1]
        \/ Top.splits_remaining <= 0
        \/ ~call.rules.resplitting_allowed)
    => /\ Len(stack') = Len(stack)
       /\ sums'[Len(sums')].total_ev =
              RAdd(sums[Len(sums)].total_ev,
                   RMul(CardProb(Top.deck, Top.rank),
                        calculate_optimal_play_ev(ThisEngine, <<Top.hand[1], Top.rank>>,
                            call.upcard, TakeCard(Top.deck, Top.rank),
                            call.rules).value))

\* C22: in the split recursion a re-split is entered only for a dealt card of
\* the pair rank, with resplitting allowed and splits remaining; it then
\* counts as max(re-split EV, play EV); every nested split has one split less
\* remaining, none is entered with resplitting disabled, and the nested
\* splits never exceed max_split_hands - 1.
C22_ResplitOnlyWhenAllowed ==
    /\ [](ResplitsNested /\ ResplitsBounded)
    /\ [][ResplitCountsAsMax /\ PlayedWithoutResplit]_vars

\* two nested splits are in progress and the innermost has no split left
C22_SplitsUsedUp ==
    /\ stack # <<>>
    /\ NestedSplits = 2
    /\ Top.fn = "calculate_split_ev_advanced"
    /\ Top.splits_remaining = 0

\* the optimal play of a hand when doubling is left out: the better of stand
\* and hit, and the surrender floor
PlayWithoutDouble(ae, hand, dealer_upcard, deck_state, rules) ==
    SurrenderOrBest(
        HitOrStand(
            calculate_stand_ev_recursive(ae, hand, dealer_upcard, deck_state, rules),
            hand, dealer_upcard, deck_state, rules),
        hand, rules)

\* the optimal play of a split hand under the rules' double-after-split
\* policy: with the double when the policy allows it, without it otherwise
PlayUnderPolicy(ae, hand, dealer_upcard, deck_state, rules) ==
    IF rules.double_after_split
    THEN calculate_optimal_play_ev(ae, hand, dealer_upcard, deck_state, rules)
    ELSE PlayWithoutDouble(ae, hand, dealer_upcard, deck_state, rules)

\* a split hand is being played: the loop of calculate_split_hand_ev is at a
\* card it deals and does not re-split on
SplitHandPlayed ==
    /\ stack # <<>>
    /\ Top.fn = "calculate_split_hand_ev"
    /\ Top.rank <= 10
    /\ Top.deck.cards_remaining[Top.rank] > 0
    /\ \/ Top.rank # Top.hand[1]
       \/ Top.splits_remaining <= 0
       \/ ~call.rules.resplitting_allowed

\* C23: the optimal-play EV of a split hand includes the double only when the
\* double-after-split policy allows it: a split hand played under a policy
\* that forbids the double counts as its play without the double.
C23_DoubleOnlyUnderPolicy ==
    [][SplitHandPlayed =>
          sums'[Len(sums')].total_ev =
              RAdd(sums[Len(sums)].total_ev,
                   RMul(CardProb(Top.deck, Top.rank),
                        PlayUnderPolicy(ThisEngine, <<Top.hand[1], Top.rank>>,
                            call.upcard, TakeCard(Top.deck, Top.rank),
                            call.rules).value))]_vars

-----------------------------------------------------------------------------
(* The fresh-deck table as a distribution *)

\* the sum of the seven outcome probabilities of a DealerProbabilities
OutcomeSum(p) ==
    RAdd(p.bust_prob,
    RAdd(p.blackjack_prob,
    RAdd(p.total_17_prob,
    RAdd(p.total_18_prob,
    RAdd(p.total_19_prob,
    RAdd(p.total_20_prob, p.total_21_prob))))))

\* C24: the distribution the fresh-deck table returns sums to 1 within 1e-6,
\* for every upcard and both soft-17 settings.
C24_FreshTableSumsToOne ==
    (call.op = "dealer_probabilities" /\ is_fresh_deck(deck)) =>
        ~RGt(RAbs(RSub(OutcomeSum(probs), One)), Frac(1, 1000000))

-----------------------------------------------------------------------------
(* BJLogicDealer: the legacy dealer probabilities with their static            *)
(* dealer_cache (src/cpp_src/bjlogic_core.hpp).  The probabilities are the     *)
(* vector [17, 18, 19, 20, 21, bust], here at the indices 1..6; `engine` is    *)
(* the class with its static dealer_cache.                                     *)

\* "std::vector<double> probabilities(6, 0.0)"
NoProbabilities == <<Zero, Zero, Zero, Zero, Zero, Zero>>

\* "if (new_probability < 1e-10)": 1e-10 is 1 / (100000 * 100000)
Negligible(p) ==
    \/ p[1] * 100000 < p[2] \div 100000
    \/ p[1] * 100000 = p[2] \div 100000 /\ p[2] % 100000 > 0

\* "if (current_total >= 17) { if (current_total > 17 ||
\*      !rules.dealer_hits_soft_17 || aces_as_eleven == 0) must_stand = true; }"
must_stand(current_total, aces_as_eleven, rules) ==
    /\ current_total >= 17
    /\ \/ current_total > 17
       \/ ~rules.dealer_hits_soft_17
       \/ aces_as_eleven = 0

\* "Dealer stands - record final total"
RecordFinal(current_total, current_probability, probabilities) ==
    IF current_total > 21
    THEN [probabilities EXCEPT ![6] = RAdd(@, current_probability)]
    ELSE IF current_total - 17 >= 0 /\ current_total - 17 < 5
         THEN [probabilities EXCEPT ![current_total - 16] = RAdd(@, current_probability)]
    ELSE probabilities

\* new_total and new_aces_as_eleven once the card is added
WithCard(current_total, aces_as_eleven, card) ==
    IF card = 1
    THEN IF current_total + 1 + 10 <= 21
         THEN <<current_total + 11, aces_as_eleven + 1>>
         ELSE <<current_total + 1, aces_as_eleven>>
    ELSE IF current_total + card > 21 /\ aces_as_eleven > 0
         THEN <<current_total + card - 10, aces_as_eleven - 1>>
    ELSE <<current_total + card, aces_as_eleven>>

RECURSIVE hit_dealer_recursive(_, _, _, _, _, _)
RECURSIVE HitDealerAfter(_, _, _, _, _, _)

\* one iteration of the loop of hit_dealer_recursive: prev are the
\* probabilities before it
HitDealerStep(card, now, deck_state, rules, current_probability, prev) ==
    IF deck_state.cards_remaining[card] <= 0 THEN prev
    ELSE IF Negligible(RMul(current_probability, CardProb(deck_state, card))) THEN prev
    ELSE hit_dealer_recursive(WithCard(now[1], now[2], card)[1],
                              WithCard(now[1], now[2], card)[2],
                              TakeCard(deck_state, card), rules,
                              RMul(current_probability, CardProb(deck_state, card)),
                              prev)

\* the probabilities after the iterations 1..card of the loop
HitDealerAfter(card, now, deck_state, rules, current_probability, probabilities) ==
    IF card < 1 THEN probabilities
    ELSE HitDealerStep(card, now, deck_state, rules, current_probability,
             HitDealerAfter(LastDealt(deck_state, card - 1), now, deck_state, rules,
                            current_probability, probabilities))

hit_dealer_recursive(current_total, aces_as_eleven, deck_state, rules, current_probability, probabilities) ==
    IF must_stand(current_total, aces_as_eleven, rules)
    THEN RecordFinal(current_total, current_probability, probabilities)
    ELSE HitDealerAfter(LastDealt(deck_state, 10), <<current_total, aces_as_eleven>>,
                        deck_state, rules, current_probability, probabilities)

\* calculate_card_probability(card, deck_state, dealer_upcard, false)
calculate_card_probability(card, deck_state) ==
    IF deck_state.cards_remaining[card] <= 0 THEN Zero
    ELSE Frac(deck_state.cards_remaining[card], deck_state.total_cards)

\* "std::accumulate(probabilities.begin(), probabilities.end(), 0.0)"
SumOfProbabilities(p) ==
    RAdd(p[1], RAdd(p[2], RAdd(p[3], RAdd(p[4], RAdd(p[5], p[6])))))

\* "for (double& prob : probabilities) prob /= total_prob"
DividedBy(p, total_prob) ==
    <<RDiv(p[1], total_prob), RDiv(p[2], total_prob), RDiv(p[3], total_prob),
      RDiv(p[4], total_prob), RDiv(p[5], total_prob), RDiv(p[6], total_prob)>>

\* "if (total_prob > 0) ..." on the probabilities without the blackjack
Renormalized(p) ==
    IF RGt(SumOfProbabilities(p), Zero) THEN DividedBy(p, SumOfProbabilities(p)) ELSE p

\* "Handle dealer blackjack conditioning"
ConditionedOnUpcard(upcard, deck_state, p) ==
    IF upcard = 1 \/ upcard = 10
    THEN Renormalized([p EXCEPT ![5] =
             RSub(@, calculate_card_probability(IF upcard = 1 THEN 10 ELSE 1,
                                                deck_state))])
    ELSE p

\* calculate_dealer_probabilities past the cache lookup
LegacyCompute(upcard, deck_state, rules) ==
    ConditionedOnUpcard(upcard, deck_state,
        hit_dealer_recursive(upcard, IF upcard = 1 THEN 1 ELSE 0, deck_state, rules,
                             One, NoProbabilities))

RECURSIVE LegacyKeyFrom(_, _, _)

\* "for (const auto& pair : deck_state.cards_remaining)
\*      key = key * 31 + pair.first * 1000 + pair.second" from the rank on
LegacyKeyFrom(rank, deck_state, key) ==
    IF rank > 10 THEN key
    ELSE LegacyKeyFrom(rank + 1, deck_state,
             U64MulAdd(key, 31, rank * 1000 + deck_state.cards_remaining[rank]))

\* BJLogicDealer::generate_cache_key
legacy_generate_cache_key(upcard, deck_state) ==
    LegacyKeyFrom(1, deck_state, <<upcard, 0, 0, 0>>)

\* a lookup that found nothing: the result is computed and cached
LegacyMiss(dealer, cache_key, probabilities) ==
    [dealer |-> [dealer EXCEPT !.dealer_cache = CachePut(@, cache_key, probabilities)],
     result |-> probabilities]

\* BJLogicDealer::calculate_dealer_probabilities
calculate_dealer_probabilities(dealer, upcard, deck_state, rules) ==
    IF legacy_generate_cache_key(upcard, deck_state) \in DOMAIN dealer.dealer_cache
    THEN [dealer |-> dealer,
          result |-> dealer.dealer_cache[legacy_generate_cache_key(upcard, deck_state)]]
    ELSE LegacyMiss(dealer, legacy_generate_cache_key(upcard, deck_state),
                    LegacyCompute(upcard, deck_state, rules))

\* the upcards the legacy probabilities are asked for
LegacyUpcards == {1, 6, 10}

InitLegacy ==
    /\ shoe \in ShoeFamily
    /\ deck = convert_from_deck_state(shoe)
    /\ engine = [dealer_cache |-> <<>>]
    /\ probs = NoProbabilities
    /\ call = NoCall
    /\ ret = Zero
    /\ last_ev = NewDetailedEV
    /\ simulation_depth = DefaultDepth
    /\ calls = 0
    /\ stack = <<>>
    /\ sums = <<>>

\* the class is left as the call r left it and the caller keeps the vector
LegacyReturned(r) ==
    /\ engine' = r.dealer
    /\ probs' = r.result

\* py_calculate_dealer_probabilities(upcard, shoe, rules)
LegacyQuery(upcard, h17) ==
    /\ calls < MaxQueries
    /\ calls' = calls + 1
    /\ LegacyReturned(calculate_dealer_probabilities(engine, upcard, shoe,
                                                     DefaultRules(h17)))
    /\ call' = [op |-> "legacy", upcard |-> upcard, h17 |-> h17]
    /\ UNCHANGED <<deck, shoe, ret, last_ev, simulation_depth, stack, sums>>

\* py_clear_caches()
LegacyClear ==
    /\ engine.dealer_cache # <<>>
    /\ engine' = [engine EXCEPT !.dealer_cache = <<>>]
    /\ call' = [op |-> "clear"]
    /\ UNCHANGED <<deck, shoe, probs, ret, last_ev, simulation_depth, calls, stack, sums>>

NextLegacy ==
    \/ \E upcard \in LegacyUpcards, h17 \in BOOLEAN : LegacyQuery(upcard, h17)
    \/ LegacyClear

SpecLegacy == InitLegacy /\ [][NextLegacy]_vars

\* C25: every dealer-probability memo keys its entries on dealer_hits_soft_17,
\* so a query never returns the distribution cached for the other soft-17
\* setting: what BJLogicDealer::calculate_dealer_probabilities returns is the
\* distribution of the queried upcard, deck and rules.
C25_MemoKeyedOnSoft17 ==
    call.op = "legacy" =>
        probs = LegacyCompute(call.upcard, shoe, DefaultRules(call.h17))

-----------------------------------------------------------------------------
(* AdvancedEVEngine::calculate_ev_with_provided_composition.  Of the           *)
(* DetailedEV the action EVs, the surrender and insurance EV and the optimal   *)
(* action are carried; rules.dealer_peek_on_ten is true as RulesConfig() sets  *)
(* it, so the no-peek adjustments are not entered.                             *)

\* "if (playing_deck.cards_remaining[card] > 0) { playing_deck.cards_remaining[card]--;
\*      playing_deck.total_cards--; }"
RemoveKnown(deck_state, card) ==
    IF card \in DOMAIN deck_state.cards_remaining /\ deck_state.cards_remaining[card] > 0
    THEN TakeCard(deck_state, card)
    ELSE deck_state

RECURSIVE RemoveHand(_, _, _)

\* "for (int card : player_hand) ..." from the i-th card on
RemoveHand(deck_state, player_hand, i) ==
    IF i > Len(player_hand) THEN deck_state
    ELSE RemoveHand(RemoveKnown(deck_state, player_hand[i]), player_hand, i + 1)

\* playing_deck: the provided deck without the player's cards and the upcard
PlayingDeck(provided_deck, player_hand, dealer_upcard) ==
    RemoveKnown(RemoveHand(provided_deck, player_hand, 1), dealer_upcard)

\* "result.double_ev = calculate_double_ev_recursive(...)" for two cards,
\* "result.double_ev = -2.0" otherwise
ProvidedDoubleEv(so_far, player_hand, dealer_upcard, deck_state, rules) ==
    IF Len(player_hand) = 2
    THEN WithDoubleEv(so_far,
                      calculate_double_ev_recursive(so_far.ae, player_hand,
                                                    dealer_upcard, deck_state, rules))
    ELSE [so_far EXCEPT !.result.double_ev = Unavailable]

\* "result.split_ev = ..."
WithSplitEv(so_far, split) ==
    [so_far EXCEPT !.ae = split.ae, !.result.split_ev = split.value]

\* "result.split_ev = calculate_split_ev_advanced(...)", and for a pair of aces
\* under split_aces_one_card "result.split_ev =
\* calculate_split_aces_one_card_ev(...)" on the engine the first call left
SplitOrOneCard(so_far, split, player_hand, dealer_upcard, deck_state, rules) ==
    IF player_hand[1] = 1 /\ rules.split_aces_one_card
    THEN WithSplitEv(so_far,
                     calculate_split_aces_one_card_ev(split.ae, dealer_upcard,
                                                      deck_state, rules))
    ELSE WithSplitEv(so_far, split)

\* the split EV of a pair, "result.split_ev = -2.0" for any other hand
ProvidedSplitEv(so_far, player_hand, dealer_upcard, deck_state, rules) ==
    IF Len(player_hand) = 2 /\ player_hand[1] = player_hand[2]
    THEN CHOOSE after \in
             {SplitOrOneCard(so_far, split, player_hand, dealer_upcard, deck_state,
                             rules) :
              split \in {calculate_split_ev_advanced(so_far.ae, player_hand,
                             dealer_upcard, deck_state, rules,
                             rules.max_split_hands - 1)}} : TRUE
    ELSE [so_far EXCEPT !.result.split_ev = Unavailable]

\* calculate_insurance_ev(dealer_upcard, deck) with bet_amount 1.0; the
\* quotient by total_cards = 0 is not a number
calculate_insurance_ev(dealer_upcard, deck_state) ==
    IF dealer_upcard # 1 THEN RNeg(One)
    ELSE IF deck_state.total_cards = 0 THEN "NaN"
    ELSE RSub(RMul(Frac(deck_state.cards_remaining[10], deck_state.total_cards),
                   Frac(2, 1)), One)

\* the surrender and insurance EV, then "result.true_count_adjustment =
\* true_count * 0.002" added to the action EVs (twice to the double EV) and
\* determine_optimal_action(result)
ProvidedAdjusted(so_far, player_hand, dealer_upcard, deck_state, rules, true_count) ==
    [so_far EXCEPT !.result =
        determine_optimal_action(
            [@ EXCEPT
                !.surrender_ev = IF rules.surrender_allowed /\ Len(player_hand) = 2
                                 THEN RNeg(Frac(1, 2)) ELSE RNeg(One),
                !.insurance_ev = calculate_insurance_ev(dealer_upcard, deck_state),
                !.stand_ev = RAdd(@, RMul(true_count, Frac(2, 1000))),
                !.hit_ev = RAdd(@, RMul(true_count, Frac(2, 1000))),
                !.double_ev = RAdd(@, RMul(RMul(true_count, Frac(2, 1000)), Frac(2, 1))),
                !.split_ev = RAdd(@, RMul(true_count, Frac(2, 1000)))])]

\* the engine and the DetailedEV once the stand, hit and double EV are written
ProvidedBeforeSplit(ae, player_hand, dealer_upcard, playing_deck, rules) ==
    ProvidedDoubleEv(
        ThenHitEv(
            WithStandEv(NewDetailedEV,
                calculate_stand_ev_recursive(ae, player_hand, dealer_upcard,
                                             playing_deck, rules)),
            player_hand, dealer_upcard, playing_deck, rules),
        player_hand, dealer_upcard, playing_deck, rules)

\* the EVs on the playing deck: the split EV and what follows it work on the
\* one engine and DetailedEV the first three EVs left
ProvidedOn(ae, player_hand, dealer_upcard, playing_deck, rules, true_count) ==
    CHOOSE after \in
        {ProvidedAdjusted(
             ProvidedSplitEv(so_far, player_hand, dealer_upcard, playing_deck, rules),
             player_hand, dealer_upcard, playing_deck, rules, true_count) :
         so_far \in {ProvidedBeforeSplit(ae, player_hand, dealer_upcard, playing_deck,
                                         rules)}} : TRUE

\* returns the engine after the call and the DetailedEV; true_count is
\* counter.get_true_count()
calculate_ev_with_provided_composition(ae, player_hand, dealer_upcard, provided_deck, rules, true_count) ==
    CHOOSE returned \in
        {ProvidedOn(ae, player_hand, dealer_upcard, playing_deck, rules, true_count) :
         playing_deck \in {PlayingDeck(provided_deck, player_hand, dealer_upcard)}} :
            TRUE

\* the true counts of the counter handed over
TrueCounts == {Zero, Frac(2, 1)}

\* ev_engine.calculate_ev_with_provided_composition(player_hand, dealer_upcard,
\*                                                  shoe, rules, counter)
ProvidedEV(player_hand, dealer_upcard, rules, true_count) ==
    /\ calls < MaxEvCalls
    /\ calls' = calls + 1
    /\ DetailedReturned(calculate_ev_with_provided_composition(ThisEngine, player_hand,
                            dealer_upcard, shoe, rules, true_count))
    /\ call' = [op |-> "provided", hand |-> player_hand, upcard |-> dealer_upcard,
                rules |-> rules, true_count |-> true_count]
    /\ UNCHANGED <<deck, shoe, probs, ret, simulation_depth, stack, sums>>

NextProvided ==
    /\ calls < MaxEvCalls
    /\ \E h \in EVHands, u \in EVUpcards, rules \in EVRules, t \in TrueCounts :
           ProvidedEV(h, u, rules, t)

SpecProvided == InitEV /\ [][NextProvided]_vars

\* the provided deck less the player's cards and one copy of the upcard
KnownCardsOut == PlayingDeck(shoe, call.hand, call.upcard)

\* C27: in calculate_ev_with_provided_composition every known card leaves the
\* shoe exactly once: the stand EV is the one against the dealer whose hole
\* card and draws are enumerated from the provided deck less the player's
\* cards and one copy of the upcard.
C27_KnownCardsRemovedOnce ==
    call.op = "provided" =>
        last_ev.stand_ev =
            RAdd(calculate_stand_ev_from_exact_probs(call.hand,
                     ComputeExact(call.upcard, convert_from_deck_state(KnownCardsOut),
                                  call.rules),
                     call.rules),
                 RMul(call.true_count, Frac(2, 1000)))

-----------------------------------------------------------------------------
(* CardCounter.  The variable engine holds the counter: current_system, state, *)
(* deck, cards_played and the two caches.                                      *)

\* most process_card calls on one counter
MaxCounted == 3

\* COUNTING_SYSTEMS.at(system).values, A,2,...,9,T at rank_index + 1
COUNTING_SYSTEMS(system) ==
    CASE system = "HI_LO"     -> <<-1, 1, 1, 1, 1, 1, 0, 0, 0, -1>>
      [] system = "HI_OPT_I"  -> <<0, 0, 1, 1, 1, 1, 0, 0, 0, -1>>
      [] system = "HI_OPT_II" -> <<0, 1, 1, 2, 2, 1, 1, 0, 0, -2>>
      [] system = "OMEGA_II"  -> <<0, 1, 1, 2, 2, 2, 1, 0, -1, -2>>
      [] system = "ZEN_COUNT" -> <<-1, 1, 1, 2, 2, 2, 1, 0, 0, -2>>
      [] system = "USTON_APC" -> <<0, 1, 2, 2, 3, 2, 2, 1, -1, -3>>

\* CountState()
NewCountState ==
    [running_count |-> 0, cards_seen |-> 0, true_count |-> Zero, advantage |-> Zero,
     penetration_percent |-> 0, aces_seen |-> 0]

\* cards_played.fill(0)
NoCardsPlayed == <<0, 0, 0, 0, 0, 0, 0, 0, 0, 0>>

\* CardCounter(system, num_decks)
CardCounter(system, num_decks) ==
    [current_system |-> system, state |-> NewCountState, deck |-> NewDeckState(num_decks),
     cards_played |-> NoCardsPlayed, prob_cache |-> <<>>, ev_cache |-> <<>>]

\* reset_count(): "state = CountState(); cards_played.fill(0); clear_cache();"
reset_count(counter) ==
    [counter EXCEPT !.state = NewCountState, !.cards_played = NoCardsPlayed,
                    !.prob_cache = <<>>, !.ev_cache = <<>>]

\* std::min on doubles
RMin(a, b) == IF RLt(b, a) THEN b ELSE a

\* update_true_count(): decks_remaining = deck.total_cards / 52.0 is above 0.1
\* from six cards on
update_true_count(counter) ==
    [counter EXCEPT !.state.true_count =
        IF counter.deck.total_cards <= 0 THEN Zero
        ELSE IF counter.deck.total_cards * 10 > 52
             THEN Frac(counter.state.running_count * 52, counter.deck.total_cards)
             ELSE Frac(counter.state.running_count * 10, 1)]

\* update_advantage(): -0.005 + true_count * 0.005, kept within -0.10 .. 0.10
update_advantage(counter) ==
    [counter EXCEPT !.state.advantage =
        RMax(RNeg(Frac(1, 10)),
             RMin(Frac(1, 10),
                  RAdd(RNeg(Frac(5, 1000)),
                       RMul(counter.state.true_count, Frac(5, 1000)))))]

\* "state.running_count += ...; cards_played[rank_index]++; state.cards_seen++;"
CountCard(counter, rank) ==
    [counter EXCEPT !.state.running_count = @ + COUNTING_SYSTEMS(counter.current_system)[rank],
                    !.cards_played[rank] = @ + 1,
                    !.state.cards_seen = @ + 1]

\* "if (deck.cards_remaining[rank] > 0) { deck.cards_remaining[rank]--;
\*      deck.total_cards--; }", then the penetration
DepleteAndMeasure(counter, rank) ==
    [counter EXCEPT !.deck = IF @.cards_remaining[rank] > 0 THEN TakeCard(@, rank) ELSE @,
                    !.state.penetration_percent =
                        IntDiv(counter.state.cards_seen * 100, 52 * counter.deck.num_decks)]

\* process_card(rank)
process_card(counter, rank) ==
    IF rank < 1 \/ rank > 10 THEN counter
    ELSE DepleteAndMeasure(update_advantage(update_true_count(CountCard(counter, rank))),
                           rank)

\* the counting systems and shoe sizes counters are constructed with
CounterSystems == {"HI_LO", "HI_OPT_II"}
CounterDecks == {1, 2}

\* the ranks handed to process_card: no card, an ace, a five, a ten
CounterRanks == {0, 1, 5, 10}

InitCounter ==
    /\ engine \in {CardCounter(system, n) : system \in CounterSystems, n \in CounterDecks}
    /\ shoe = NewDeckState(1)
    /\ deck = FreshComposition(1)
    /\ probs = NewProbs
    /\ call = NoCall
    /\ ret = Zero
    /\ last_ev = NewDetailedEV
    /\ simulation_depth = DefaultDepth
    /\ calls = 0
    /\ stack = <<>>
    /\ sums = <<>>

\* counter.process_card(rank)
ProcessCard(rank) ==
    /\ calls < MaxCounted
    /\ calls' = calls + 1
    /\ engine' = process_card(engine, rank)
    /\ call' = [op |-> "process_card", rank |-> rank]
    /\ UNCHANGED <<deck, shoe, probs, ret, last_ev, simulation_depth, stack, sums>>

\* counter.reset_count()
ResetCount ==
    /\ engine' = reset_count(engine)
    /\ call' = [op |-> "reset_count"]
    /\ UNCHANGED <<deck, shoe, probs, ret, last_ev, simulation_depth, calls, stack, sums>>

NextCounter ==
    \/ \E rank \in CounterRanks : ProcessCard(rank)
    \/ ResetCount

SpecCounter == InitCounter /\ [][NextCounter]_vars

\* C29: after any sequence of process_card calls reset_count() leaves the
\* counter as a freshly constructed counter for the same system and deck count:
\* running count, true count, cards seen and penetration zero and the tracked
\* shoe full.
C29_ResetIsFresh ==
    call.op = "reset_count" =>
        engine = CardCounter(engine.current_system, engine.deck.num_decks)

-----------------------------------------------------------------------------
(* DealerProbabilities::total_distribution.  The seven named probabilities are *)
(* what calculate_dealer_probabilities_advanced hands on; here are the places  *)
(* of total_distribution the recursion writes on the way.                      *)

\* std::array<double, 22> total_distribution
DistributionEntries == 22

\* "for (int i = 0; i < 22; ++i) result.total_distribution[i] ..."
AccumulatedEntries == 0..(22 - 1)

\* the index a call that returns at once writes: "total_distribution[21 + 1] =
\* 1.0" for a bust, "total_distribution[dealer_total] = 1.0" for a dealer who
\* stands without a blackjack
TerminalWrites(dealer_hand, dealer_total) ==
    IF dealer_total > 21 THEN {21 + 1}
    ELSE IF Len(dealer_hand) = 2 /\ dealer_total = 21 THEN {}
    ELSE {dealer_total}

RECURSIVE DistributionWrites(_, _, _)

\* the indices of total_distribution written in the branch of next_card_rank:
\* by the recursive call into its result, then by the accumulation
BranchWrites(dealer_hand, d, rules, next_card_rank) ==
    IF d.cards[next_card_rank - 1] <= 0 THEN {}
    ELSE AccumulatedEntries
             \cup DistributionWrites(
                      Append(dealer_hand,
                             IF next_card_rank >= 10 THEN 10 ELSE next_card_rank),
                      [cards |-> [d.cards EXCEPT ![next_card_rank - 1] = @ - 1],
                       total_cards |-> d.total_cards - 1],
                      rules)

\* the indices of total_distribution written by
\* calculate_dealer_probabilities_recursive(dealer_hand, d, rules, depth) and
\* the calls it makes
DistributionWrites(dealer_hand, d, rules) ==
    IF calculate_dealer_total(dealer_hand) > 21 \/ ~ev_dealer_must_hit(dealer_hand, rules)
    THEN TerminalWrites(dealer_hand, calculate_dealer_total(dealer_hand))
    ELSE UNION {BranchWrites(dealer_hand, d, rules, next_card_rank) :
                    next_card_rank \in 1..13}

\* the last query found no entry under its key and the deck was not fresh: the
\* recursion ran
RecursionRan ==
    /\ call.op = "dealer_probabilities"
    /\ QueriedKey \notin DOMAIN call.before.dealer_prob_cache
    /\ ~is_fresh_deck(deck)

\* C28: every write into a dealer result's full distribution array uses an
\* index that exists in the array: in the recursion of
\* calculate_dealer_probabilities_advanced the bust outcome and every standing
\* total are recorded inside the 22 entries of total_distribution.
C28_WritesInsideDistribution ==
    RecursionRan =>
        DistributionWrites(<<call.upcard>>, deck, DefaultRules(call.h17))
            \subseteq 0..(DistributionEntries - 1)

-----------------------------------------------------------------------------
(* The keys of the queries of one engine *)

\* the key calculate_exact_probabilities looks up for the upcard, the
\* composition handed over and the soft-17 rule
ExactQueryKey(upcard, d, h17) ==
    generate_cache_key(<<upcard>>, remove_card(d, upcard), DefaultRules(h17))

\* C30: generate_cache_key, in unsigned 64-bit arithmetic with wraparound, is
\* injective on the queries it receives: a query with the key of the last
\* query has its upcard, its composition and its soft-17 rule.
C30_KeyInjective ==
    ExactCall =>
        \A d \in KeyDecks, upcard \in KeyUpcards, h17 \in BOOLEAN :
            ExactQueryKey(upcard, d, h17) = ExactQueryKey(call.upcard, deck, call.h17)
                => /\ upcard = call.upcard
                   /\ remove_card(d, upcard) = WorkingDeck
                   /\ h17 = call.h17

=============================================================================
